---- MODULE Spec2Model ----
(***************************************************************************)
(* Benchmark execution engine of examples_utils.benchmarks:                *)
(*   run_benchmarks_from_spec  -> run_benchmark_variant                    *)
(*                             -> run_and_monitor_progress (child process, *)
(*                                proc_thread, monitor_thread, poll loop)  *)
(*                             -> extract_metrics / derive_metrics         *)
(* Strings that the code inspects by substring are modelled as sequences   *)
(* of tokens; `tok in text` is membership of the token in the sequence.    *)
(* Optional values (Python None) are modelled as the empty sequence <<>>,  *)
(* a present value v as <<v>>.                                             *)
(***************************************************************************)
EXTENDS Integers, Sequences, FiniteSets, TLC

\* ---------------------------------------------------------------- bounds
\* benchmarks in one spec file
MaxBenchmarks == 2
\* largest --timeout value tried
MaxTimeout == 1
\* polls of the supervisor loop before the child must exit
MaxTime == 2
\* attempt counter saturates here (the loop itself is unbounded)
MaxAttempts == 2

\* ------------------------------------------------------ program constants
SIGKILL == 9
ForcedExitCode == 1
UncaughtExceptionStatus == 1
NormalExitStatus == 0

\* -------------------------------------------------------------- helpers
Min2(a, b) == IF a <= b THEN a ELSE b

Contains(text, tok) == \E i \in 1..Len(text) : text[i] = tok

IsNone(opt) == opt = <<>>

Some(v) == <<v>>

EmptyDict == [k \in {} |-> 0]

\* d[k] = v on a copy of d
DictPut(d, k, v) == [x \in (DOMAIN d) \cup {k} |-> IF x = k THEN v ELSE d[x]]

\* keys and values of an insertion-ordered dict kept as a sequence of <<key, value>>
Keys(items) == {items[i][1] : i \in 1..Len(items)}

Lookup(items, k) == items[CHOOSE i \in 1..Len(items) : items[i][1] = k][2]

ItemsPut(items, k, v) ==
    IF k \in Keys(items)
    THEN [i \in 1..Len(items) |-> IF items[i][1] = k THEN <<k, v>> ELSE items[i]]
    ELSE Append(items, <<k, v>>)

\* ------------------------------------------------------------ text model
\* One line of captured output: a token the code searches for, or a line a
\* metric regexp matches (tok names the regexp, val/nan the float it parses).
Line(tok, val, nan) == [tok |-> tok, val |-> val, nan |-> nan]

Text(tok) == Line(tok, 0, FALSE)

\* Python `tok in text`
HasToken(text, tok) == \E i \in 1..Len(text) : text[i].tok = tok

NOTEBOOK_MODULE == "examples_utils.benchmarks.notebook_utils"

\* ------------------------------------------------------ variant expander
\* lexicographic order of the parameter names used, for sorted(variant.keys())
ParamOrder == <<"bs", "ga", "n">>

\* dict(zip(names, vals)) with str(v): the shorter of the two bounds the pairs
ZipDict(names, vals) ==
    LET n == Min2(Len(names), Len(vals))
        keys == {names[i] : i \in 1..n}
        last(k) == CHOOSE i \in 1..n : names[i] = k /\ \A j \in 1..n : names[j] = k => j <= i
    IN [k \in keys |-> vals[last(k)]]

\* a pass that pairs the values with the variants in turn instead of crossing them
MatrixStep_Paired(current_variants, name, vals) ==
    [idx \in 1..Len(vals) |->
        DictPut(current_variants[((idx - 1) % Len(current_variants)) + 1], name, vals[idx])]

\* one pass of the matrix loop: for v in vals: for c in current_variants
MatrixStep(current_variants, name, vals) ==
    LET lc == Len(current_variants)
    IN [idx \in 1..(Len(vals) * lc) |->
            DictPut(current_variants[((idx - 1) % lc) + 1], name, vals[((idx - 1) \div lc) + 1])]

RECURSIVE MatrixVariants(_, _)
MatrixVariants(items, variants) ==
    IF items = <<>> THEN variants
    ELSE MatrixVariants(Tail(items), MatrixStep(variants, items[1][1], items[1][2]))

\* create_variants falling back to the single empty variant on a malformed 'parameters'
create_variants_Lenient(benchmark_dict) ==
    LET parameters == benchmark_dict.parameters
    IN CASE parameters.style = "list" ->
                [raised |-> FALSE,
                 variants |-> [j \in 1..(Len(parameters.list) - 1) |->
                                   ZipDict(parameters.list[1], parameters.list[j + 1])]]
         [] parameters.style = "dict" ->
                [raised |-> FALSE, variants |-> MatrixVariants(parameters.items, <<EmptyDict>>)]
         [] OTHER -> [raised |-> FALSE, variants |-> <<EmptyDict>>]

\* create_variants: [raised, variants]; raised is the ValueError of the else branch
create_variants(benchmark_dict) ==
    LET parameters == benchmark_dict.parameters
    IN CASE parameters.style = "none" -> [raised |-> FALSE, variants |-> <<EmptyDict>>]
         [] parameters.style = "list" ->
                [raised |-> FALSE,
                 variants |-> [j \in 1..(Len(parameters.list) - 1) |->
                                   ZipDict(parameters.list[1], parameters.list[j + 1])]]
         [] parameters.style = "dict" ->
                [raised |-> FALSE, variants |-> MatrixVariants(parameters.items, <<EmptyDict>>)]
         [] OTHER -> [raised |-> TRUE, variants |-> <<>>]

SortedKeys(variant) == SelectSeq(ParamOrder, LAMBDA k : k \in DOMAIN variant)

\* a suffix made of the parameter names alone
NameSuffix_KeysOnly(keys, variant) == keys

RECURSIVE NameSuffix(_, _)
NameSuffix(keys, variant) ==
    IF keys = <<>> THEN <<>>
    ELSE <<keys[1], variant[keys[1]]>> \o NameSuffix(Tail(keys), variant)

\* work_str = benchmark_name + "_" + k + "_" + variant[k] for k in sorted keys
VariantName(benchmark_name, variant) == benchmark_name \o NameSuffix(SortedKeys(variant), variant)

get_benchmark_variants(benchmark_name, benchmark_dict) ==
    LET cv == create_variants(benchmark_dict)
    IN [raised |-> cv.raised,
        variants |-> [i \in 1..Len(cv.variants) |->
                         [name |-> VariantName(benchmark_name, cv.variants[i]),
                          config |-> cv.variants[i]]]]

\* ---------------------------------------------------------- retry policy
\* the retry predicate without its "Timeout" test
should_reattempt_benchmark_NoTimeoutTest(variant, output, err, exitcode) ==
    IF /\ Contains(variant.cmd, NOTEBOOK_MODULE)
       /\ HasToken(err, "ModuleNotFoundError")
       /\ exitcode # 0
       /\ HasToken(output, "Successfully installed")
    THEN <<"Notebook has installed some packages, need to restart kernel">>
    ELSE <<>>

\* should_reattempt_benchmark: <<>> is False, <<reason>> the truthy string
should_reattempt_benchmark(variant, output, err, exitcode) ==
    IF HasToken(err, "Timeout") THEN <<>>
    ELSE IF /\ Contains(variant.cmd, NOTEBOOK_MODULE)
            /\ HasToken(err, "ModuleNotFoundError")
            /\ exitcode # 0
            /\ HasToken(output, "Successfully installed")
         THEN <<"Notebook has installed some packages, need to restart kernel">>
         ELSE <<>>

Truthy(v) == v # <<>>

\* ------------------------------------------------------- metrics pipeline
\* A metric value is a rational [num, den]; an entry of the results dict is
\* {key: value} with a possibly absent (None) value.
Num(n) == [num |-> n, den |-> 1]

Entry(key, value) == [key |-> key, value |-> value]

RECURSIVE SumSeq(_)
SumSeq(s) == IF s = <<>> THEN 0 ELSE s[1] + SumSeq(Tail(s))

MinOf(s) == CHOOSE x \in {s[i] : i \in 1..Len(s)} : \A j \in 1..Len(s) : x <= s[j]

MaxOf(s) == CHOOSE x \in {s[i] : i \in 1..Len(s)} : \A j \in 1..Len(s) : x >= s[j]

RemoveAt(s, i) == SubSeq(s, 1, i - 1) \o SubSeq(s, i + 1, Len(s))

\* a sort that leaves the list as it is
SortList_Unsorted(s, reverse) == s

\* list.sort() / list.sort(reverse=True)
RECURSIVE SortList(_, _)
SortList(s, reverse) ==
    IF s = <<>> THEN <<>>
    ELSE LET pick == IF reverse THEN MaxOf(s) ELSE MinOf(s)
             i == CHOOSE k \in 1..Len(s) : s[k] = pick
         IN <<pick>> \o SortList(RemoveAt(s, i), reverse)

\* defaults that skip the first match
set_config_defaults_SkipOne(config) ==
    [config EXCEPT !.skip = IF IsNone(@) THEN Some(1) ELSE @,
                   !.reduction_type = IF IsNone(@) THEN Some("mean") ELSE @]

\* set_config_defaults: skip=0 and reduction_type="mean" where not defined
set_config_defaults(config) ==
    [config EXCEPT !.skip = IF IsNone(@) THEN Some(0) ELSE @,
                   !.reduction_type = IF IsNone(@) THEN Some("mean") ELSE @]

\* the float() of every match of the metric's regexp, stdout lines then stderr lines
AllResults(regexp, stdout, stderr) ==
    SelectSeq(stdout, LAMBDA l : l.tok = regexp) \o SelectSeq(stderr, LAMBDA l : l.tok = regexp)

\* the loop body without its NaN test: a "nan" match counts as the number it carries
ExtractOne_NaNIgnored(name, metric_spec, all_results, exitcode, num_replicas) ==
    LET skip == metric_spec.skip[1]
        kind == metric_spec.reduction_type[1]
        vals == [i \in 1..Len(all_results) |-> all_results[i].val]
        kept == SubSeq(SortList(vals, name = "latency"), skip + 1, Len(vals))
        reduced == CASE kind = "mean" -> Some([num |-> SumSeq(kept), den |-> Len(kept)])
                     [] kind = "final" -> Some(Num(vals[Len(vals)]))
                     [] kind = "min" -> Some(Num(MinOf(vals)))
                     [] kind = "value" -> Some(Num(vals[1]))
                     [] OTHER -> <<>>
    IN IF exitcode # 0 THEN <<>>
       ELSE IF Len(all_results) <= skip THEN <<>>
       ELSE IF name = "throughput" /\ reduced # <<>>
            THEN Some([reduced[1] EXCEPT !.num = @ * num_replicas])
            ELSE reduced

\* body of the loop of extract_metrics for one metric: the result or None
ExtractOne(name, metric_spec, all_results, exitcode, num_replicas) ==
    LET skip == metric_spec.skip[1]
        kind == metric_spec.reduction_type[1]
        vals == [i \in 1..Len(all_results) |-> all_results[i].val]
        kept == SubSeq(SortList(vals, name = "latency"), skip + 1, Len(vals))
        reduced == CASE kind = "mean" -> Some([num |-> SumSeq(kept), den |-> Len(kept)])
                     [] kind = "final" -> Some(Num(vals[Len(vals)]))
                     [] kind = "min" -> Some(Num(MinOf(vals)))
                     [] kind = "value" -> Some(Num(vals[1]))
                     [] OTHER -> <<>>
    IN IF \E i \in 1..Len(all_results) : all_results[i].nan THEN <<>>
       ELSE IF exitcode # 0 THEN <<>>
       ELSE IF Len(all_results) <= skip THEN <<>>
       ELSE IF name = "throughput" /\ reduced # <<>>
            THEN Some([reduced[1] EXCEPT !.num = @ * num_replicas])
            ELSE reduced

\* extract_metrics: [metrics, failed]; extraction_config is the "data" dict
RECURSIVE extract_metrics(_, _, _, _, _)
extract_metrics(extraction_config, stdout, stderr, exitcode, num_replicas) ==
    IF extraction_config = <<>> THEN [metrics |-> <<>>, failed |-> FALSE]
    ELSE LET n == Len(extraction_config)
             rest == extract_metrics(SubSeq(extraction_config, 1, n - 1), stdout, stderr,
                                     exitcode, num_replicas)
             name == extraction_config[n][1]
             metric_spec == set_config_defaults(extraction_config[n][2])
             result == ExtractOne(name, metric_spec,
                                  AllResults(metric_spec.regexp, stdout, stderr),
                                  exitcode, num_replicas)
         IN [metrics |-> ItemsPut(rest.metrics, name, Entry(metric_spec.reduction_type[1], result)),
             failed |-> rest.failed \/ IsNone(result)]

\* additional_metrics: five entries keyed by their own name
AdditionalNames == <<"test_duration", "cmd", "result", "git_commit_hash", "env">>

RECURSIVE additional_metrics(_, _)
additional_metrics(results, names) ==
    IF names = <<>> THEN results
    ELSE additional_metrics(ItemsPut(results, names[1], Entry(names[1], Some(Num(0)))), Tail(names))

\* flatten_results: [raised, flat]; raised is the KeyError of results_dict[key]
flatten_results(results, derivation_config) ==
    LET key(metric) == IF metric \in Keys(derivation_config)
                          /\ ~IsNone(Lookup(derivation_config, metric).reduction_type)
                       THEN Lookup(derivation_config, metric).reduction_type[1]
                       ELSE "mean"
    IN [raised |-> \E i \in 1..Len(results) : results[i][2].key # key(results[i][1]),
        flat |-> [i \in 1..Len(results) |-> <<results[i][1], results[i][2].value>>]]

\* the number a parameter value string evaluates to
ParamNumber(v) == CASE v = "1" -> 1 [] v = "2" -> 2 [] OTHER -> 0

\* {**flatten_results(...), **benchmark_config}: a parameter shadows a metric
Operand(flat, benchmark_config, name) ==
    IF name \in DOMAIN benchmark_config THEN Some(Num(ParamNumber(benchmark_config[name])))
    ELSE Lookup(flat, name)

Defined(flat, benchmark_config, name) == name \in (DOMAIN benchmark_config) \cup Keys(flat)

ExprNames(expr) == IF expr.op = "ref" THEN {expr.a} ELSE {expr.a, expr.b}

\* eval(expression) under the bare except: the value, or None
Eval(expr, flat, benchmark_config) ==
    LET a == Operand(flat, benchmark_config, expr.a)
        b == Operand(flat, benchmark_config, expr.b)
    IN CASE expr.op = "ref" -> a
         [] expr.op = "div" ->
                IF IsNone(a) \/ IsNone(b) THEN <<>>
                ELSE IF b[1].num = 0 THEN <<>>
                ELSE Some([num |-> a[1].num * b[1].den, den |-> a[1].den * b[1].num])
         [] OTHER -> <<>>

\* derive_metrics: [raised, results, failed, config]; raised is a KeyError of
\* flatten_results or of str.format, which the function does not catch
RECURSIVE derive_metrics(_, _, _, _, _)
derive_metrics(derivation_config, todo, benchmark_config, results, exitcode) ==
    IF todo = <<>>
    THEN [raised |-> FALSE, results |-> results, failed |-> FALSE, config |-> derivation_config]
    ELSE LET name == todo[1][1]
             config == set_config_defaults(todo[1][2])
             dc == ItemsPut(derivation_config, name, config)
             fr == flatten_results(results, dc)
             raises == /\ exitcode = 0
                       /\ \/ fr.raised
                          \/ \E x \in ExprNames(config.expr) : ~Defined(fr.flat, benchmark_config, x)
             result == IF exitcode # 0 THEN <<>> ELSE Eval(config.expr, fr.flat, benchmark_config)
         IN IF raises
            THEN [raised |-> TRUE, results |-> results, failed |-> FALSE, config |-> dc]
            ELSE LET rest == derive_metrics(dc, Tail(todo),
                                            benchmark_config,
                                            ItemsPut(results, name, Entry(config.reduction_type[1], result)),
                                            exitcode)
                 IN [raised |-> rest.raised,
                     results |-> rest.results,
                     failed |-> rest.failed \/ IsNone(result),
                     config |-> rest.config]

\* process_registered_metrics with the registered total_compiling_time hook;
\* the modelled logs carry no compile timestamps, so its value is None
process_registered_metrics(results) ==
    ItemsPut(results, "total_compiling_time", Entry("mean", <<>>))

\* get_mpinum: the count after "--np" of an mpirun command, else 1
get_mpinum(command) ==
    IF \E i \in 1..(Len(command) - 1) : command[i] = "--np" /\ Contains(SubSeq(command, 1, i), "mpirun")
    THEN ParamNumber(command[(CHOOSE i \in 1..(Len(command) - 1) : command[i] = "--np") + 1])
    ELSE 1

\* ------------------------------------------------------ inputs of a run
Metric(regexp, skip, reduction_type) ==
    [regexp |-> regexp, skip |-> skip, reduction_type |-> reduction_type]

Derived(expr, reduction_type) == [expr |-> expr, skip |-> <<>>, reduction_type |-> reduction_type]

PlainCmd == <<"python3", "train.py">>

Benchmark(parameters, notebook, cmd, data, derived) ==
    [generated |-> FALSE, synthetic |-> FALSE, parameters |-> parameters,
     notebook |-> notebook, cmd |-> cmd, data |-> data, derived |-> derived, timeout |-> <<>>]

\* the benchmark entries a spec file is drawn from: <<name, definition>>; the first
\* carries a 'timeout' field of its own, as the timeout_variant of test_benchmarks.py
BenchmarkUniverse == {
    << <<"gen", "thr">>,
       [Benchmark([style |-> "dict", items |-> << <<"bs", <<"1", "2">> >> >>], FALSE,
                  <<"poprun", "--host", "$HOSTS", "python3", "train.py">>,
                  << <<"throughput", Metric("throughput", <<>>, <<>>)>> >>,
                  << <<"per_sample", Derived([op |-> "div", a |-> "throughput", b |-> "bs"], <<>>)>> >>)
           EXCEPT !.timeout = Some(1)] >>,
    << <<"real">>,
       Benchmark([style |-> "none"], FALSE, PlainCmd,
                 << <<"loss", Metric("loss", Some(1), Some("final"))>> >>,
                 << <<"ratio", Derived([op |-> "ref", a |-> "loss"], <<>>)>> >>) >>,
    << <<"nb", "synth">>,
       Benchmark([style |-> "list", list |-> << <<"n">>, <<"1">> >>], TRUE, <<>>, <<>>, <<>>) >>,
    << <<"gen", "bad">>, Benchmark([style |-> "bad"], FALSE, PlainCmd, <<>>, <<>>) >>,
    << <<"gen", "_conv">>, Benchmark([style |-> "none"], FALSE, PlainCmd, <<>>, <<>>) >> }

\* spec files: insertion-ordered dicts of distinct benchmark names
RECURSIVE SpecsOfLen(_)
SpecsOfLen(n) ==
    IF n = 0 THEN {<<>>}
    ELSE {Append(sp, b) : sp \in SpecsOfLen(n - 1), b \in BenchmarkUniverse} 

Specs == UNION {{sp \in SpecsOfLen(n) : \A i, j \in 1..n : i # j => sp[i][1] # sp[j][1]} :
                n \in 1..MaxBenchmarks}

Timeouts == {<<>>} \cup {Some(n) : n \in 1..MaxTimeout}

ArgsUniverse ==
    [benchmark : {<<>>}, include_convergence : {FALSE}, stop_on_error : BOOLEAN,
     timeout : Timeouts, gc_monitor : BOOLEAN, compile_only : {FALSE},
     additional_metrics : {FALSE}]

\* os.environ: which of the variables the engine reads are set
Environs == {[DATASETS_DIR |-> TRUE, HOSTS |-> TRUE],
             [DATASETS_DIR |-> FALSE, HOSTS |-> TRUE],
             [DATASETS_DIR |-> TRUE, HOSTS |-> FALSE]}

\* a variable is left unset only where a benchmark of the spec reads it: the run of any
\* other spec cannot tell the two environments apart
ReadsUnset(sp, e) ==
    /\ ~e.DATASETS_DIR =>
          \E i \in 1..Len(sp) : ~(Contains(sp[i][1], "gen") \/ Contains(sp[i][1], "synth"))
    /\ ~e.HOSTS => \E i \in 1..Len(sp) : Contains(sp[i][2].cmd, "$HOSTS")

\* what a child process may print: <<stdout, stderr>>
ChildOutputs == {
    << <<Line("throughput", 2, FALSE), Line("throughput", 4, FALSE), Line("loss", 1, FALSE),
         Line("loss", 3, FALSE)>>, <<>> >>,
    << <<Line("throughput", 0, TRUE), Line("loss", 1, FALSE)>>, <<Text("warning")>> >>,
    << <<Text("Successfully installed")>>, <<Text("ModuleNotFoundError")>> >> }

ChildExitCodes == {0, 1}

\* ------------------------------------------------------------------ state
VARIABLES
    spec,               \* the loaded spec: sequence of <<benchmark name, definition>>
    args,               \* the argparse namespace
    environ,            \* os.environ
    pc,                 \* position of run_benchmarks_from_spec / main
    benchmarks_list,    \* names to validate
    bidx,               \* index of the validation loop
    variant_dictionary, \* OrderedDict benchmark name -> variant list
    rb, rv,             \* indices of the two run loops
    result_list,        \* results of the benchmark being run
    results,            \* benchmark name -> result list
    raised,             \* the exception that left main: <<type, what, benchmark name>>, <<>> if none
    exit_status,        \* exit status of the interpreter, <<>> while running
    vpc,                \* position inside run_benchmark_variant
    need_to_run, attempts, stdout, stderr, exitcode, monitor_log,
    proc,               \* the child: "none", "running", "exited"
    status,             \* the exit status the OS holds for the child
    child_out, child_err, \* what the child has written to its pipes
    returncode,         \* proc.returncode
    t,                  \* proc_thread: "none", "reading", "done"
    outs,               \* outs[0], outs[1]
    t_monitor,          \* monitor_thread: "none", "running", "done"
    ipu_monitoring,     \* lines appended by monitor_thread
    total_time, timeout_error,
    kill_called,        \* history: proc.kill() was called in this attempt
    running_children,   \* history: children of this invocation that have not exited
    summary,            \* the PASSED/FAILED lines of print_benchmark_summary
    spawned,            \* history: names of the variants whose child was spawned
    \* run_and_monitor_progress_on_slurm
    slurm_pc,           \* position inside the function, "idle" outside it
    slurm_config,       \* the keyword arguments: [job_name, timeout]
    sbatch,             \* the submission process: "none", "running", "exited"
    sbatch_status,      \* the exit status the OS holds for it
    job,                \* the job in the queue: "none", "running", "completed", "cancelled"
    job_submitted,      \* the "Submitted" line has been read
    log_files,          \* the job's stdout and stderr files exist
    log_paths,          \* stdout_path and stderr_path are set
    slurm_time,         \* total_time of the polling loop
    slurm_timeout_error,
    atexit_hooks,       \* registrations of kill_slurm_job with atexit
    scancel,            \* history: exit codes of the scancel commands run in this attempt
    slurm_ret,          \* the tuple the function returned, <<>> if none
    slurm_raised,       \* the exception that left the function, <<>> if none
    slurm_attempts,     \* calls made by the retry loop of the variant
    \* run_and_monitor_progress at the granularity of single reads
    pipes,              \* what the child has written and proc_thread has not read: <<stdout, stderr>>
    listener,           \* what has been written to the listener
    descendants,        \* processes started by the child still hold the write ends of its pipes
    \* load_lib called by several processes
    lib_pc,             \* position of each process inside load_lib
    lib_fd,             \* the inode each process has open at lock_path, 0 if none
    lib_held,           \* the inode each process holds the flock of, 0 if none
    lock_file,          \* the inode at lock_path, 0 if the file does not exist
    binary,             \* the file at binary_path: "absent", "stale", "partial", "valid"
    builds,             \* history: builds completed
    lib_loaded,         \* the processes that have loaded the library
    \* a single call of one of the pure functions
    call                \* [fn, arg, returned, ret]

inputVars == <<args, environ>>
mainVars == <<spec, pc, benchmarks_list, bidx, variant_dictionary, rb, rv, result_list, results,
              raised, exit_status, summary>>
variantVars == <<vpc, need_to_run, attempts, stdout, stderr, exitcode, monitor_log>>
childVars == <<proc, status, child_out, child_err>>
threadVars == <<returncode, t, outs>>
monitorVars == <<t_monitor, ipu_monitoring>>
pollVars == <<total_time, timeout_error, kill_called>>
engineVars == <<inputVars, mainVars, variantVars, childVars, threadVars, monitorVars, pollVars,
                running_children, spawned>>
slurmVars == <<slurm_pc, slurm_config, sbatch, sbatch_status, job, job_submitted, log_files,
               log_paths, slurm_time, slurm_timeout_error, atexit_hooks, scancel, slurm_ret,
               slurm_raised, slurm_attempts>>
ioVars == <<pipes, listener, descendants>>
libVars == <<lib_pc, lib_fd, lib_held, lock_file, binary, builds, lib_loaded>>
vars == <<engineVars, slurmVars, ioVars, libVars, call>>

\* no process has called load_lib
LibIdle ==
    /\ lib_pc = <<>> /\ lib_fd = <<>> /\ lib_held = <<>>
    /\ lock_file = 0 /\ binary = "absent" /\ builds = 0 /\ lib_loaded = {}

\* no pipe is open
IoIdle == pipes = <<<<>>, <<>>>> /\ listener = <<>> /\ descendants = FALSE

\* no call of run_and_monitor_progress_on_slurm has been made
SlurmIdle ==
    /\ slurm_pc = "idle"
    /\ slurm_config = [job_name |-> <<>>, timeout |-> <<>>]
    /\ sbatch = "none" /\ sbatch_status = <<>>
    /\ job = "none" /\ job_submitted = FALSE
    /\ log_files = FALSE /\ log_paths = FALSE
    /\ slurm_time = 0 /\ slurm_timeout_error = FALSE
    /\ atexit_hooks = 0 /\ scancel = <<>>
    /\ slurm_ret = <<>> /\ slurm_raised = <<>>
    /\ slurm_attempts = 0

NoCall == [fn |-> "none"]

\* run_benchmarks_from_spec has been entered and nothing has happened yet
EngineStart ==
    /\ pc = "start"
    /\ benchmarks_list = <<>>
    /\ bidx = 1
    /\ variant_dictionary = <<>>
    /\ rb = 1 /\ rv = 1
    /\ result_list = <<>>
    /\ results = <<>>
    /\ raised = <<>>
    /\ exit_status = <<>>
    /\ summary = <<>>
    /\ vpc = "idle"
    /\ need_to_run = FALSE /\ attempts = 0
    /\ stdout = <<>> /\ stderr = <<>> /\ exitcode = 0 /\ monitor_log = 0
    /\ proc = "none" /\ status = <<>> /\ child_out = <<>> /\ child_err = <<>>
    /\ returncode = <<>> /\ t = "none" /\ outs = <<<<>>, <<>>>>
    /\ t_monitor = "none" /\ ipu_monitoring = 0
    /\ total_time = 0 /\ timeout_error = FALSE /\ kill_called = FALSE
    /\ running_children = 0
    /\ spawned = <<>>

Init ==
    /\ spec \in Specs
    /\ args \in ArgsUniverse
    /\ environ \in {e \in Environs : ReadsUnset(spec, e)}
    /\ EngineStart
    /\ SlurmIdle
    /\ IoIdle
    /\ LibIdle
    /\ call = NoCall

\* an exception propagates out of run_benchmarks and main: the interpreter exits
Exception(type, what, benchmark_name) == <<type, what, benchmark_name>>

\* a main that derives the exit status from the variant results
ExitStatusOfMain_FromResults(exc, res) ==
    IF exc # <<>> THEN UncaughtExceptionStatus
    ELSE IF \E b \in 1..Len(res) : \E i \in 1..Len(res[b][2]) : res[b][2][i].exitcode # 0
    THEN UncaughtExceptionStatus ELSE NormalExitStatus

\* __main__.py: main discards what run_benchmarks returns and never calls sys.exit on
\* this path, so the interpreter exits 0 unless an exception propagates
ExitStatusOfMain(exc, res) == IF exc = <<>> THEN NormalExitStatus ELSE UncaughtExceptionStatus

Raise(exc) ==
    /\ pc' = "exited"
    /\ raised' = exc
    /\ exit_status' = Some(ExitStatusOfMain(exc, results))
    /\ UNCHANGED summary

\* ------------------------------------------- run_benchmarks_from_spec
\* process_notebook_to_command: a "notebook" entry becomes a notebook_utils command
process_notebook_to_command(variant) ==
    IF ~variant.notebook THEN variant
    ELSE [variant EXCEPT !.notebook = FALSE,
                         !.cmd = <<"python3", "-m", NOTEBOOK_MODULE, "nb.ipynb", ".">>]

NotebookAndCmd(variant) == variant.notebook /\ variant.cmd # <<>>

\* lines 540-557: choose the benchmarks, turn notebook entries into commands
Start ==
    /\ UNCHANGED <<slurmVars, ioVars, libVars, call>>
    /\ pc = "start"
    /\ IF \E i \in 1..Len(spec) : NotebookAndCmd(spec[i][2])
       THEN /\ Raise(Exception("ValueError", "notebook and cmd", <<>>))
            /\ UNCHANGED <<spec, benchmarks_list>>
       ELSE /\ spec' = [i \in 1..Len(spec) |-> <<spec[i][1], process_notebook_to_command(spec[i][2])>>]
            /\ benchmarks_list' = IF IsNone(args.benchmark)
                                  THEN [i \in 1..Len(spec) |-> spec[i][1]]
                                  ELSE args.benchmark[1]
            /\ pc' = "validate"
            /\ UNCHANGED <<raised, exit_status, summary>>
    /\ UNCHANGED <<inputVars, bidx, variant_dictionary, rb, rv, result_list, results, variantVars,
                   childVars, threadVars, monitorVars, pollVars, running_children, spawned>>

\* spec_entry after the "gen"/"synth" name markers are applied (lines 573-577)
MarkedEntry(benchmark_name, spec_entry) ==
    [spec_entry EXCEPT !.generated = @ \/ Contains(benchmark_name, "gen"),
                       !.synthetic = @ \/ Contains(benchmark_name, "synth")]

\* validation without the DATASETS_DIR check
DatasetMissing_Unchecked(spec_entry, env) == FALSE

\* lines 578-580: the benchmark needs real data and DATASETS_DIR is not set
DatasetMissing(spec_entry, env) ==
    ~(spec_entry.generated \/ spec_entry.synthetic) /\ ~env.DATASETS_DIR

\* one iteration of the validation loop (lines 558-597), and lines 599-603 after the last
Validate ==
    /\ UNCHANGED <<slurmVars, ioVars, libVars, call>>
    /\ pc = "validate"
    /\ IF bidx > Len(benchmarks_list)
       THEN /\ IF variant_dictionary = <<>>
               THEN Raise(Exception("ValueError", "no valid benchmarks", <<>>))
               ELSE pc' = "check_env" /\ UNCHANGED <<raised, exit_status, summary>>
            /\ UNCHANGED <<spec, bidx, variant_dictionary>>
       ELSE LET benchmark_name == benchmarks_list[bidx]
                spec_entry == MarkedEntry(benchmark_name, Lookup(spec, benchmark_name))
                marked == ItemsPut(spec, benchmark_name, spec_entry)
                variant_list == get_benchmark_variants(benchmark_name, spec_entry)
            IN IF benchmark_name \notin Keys(spec)
               THEN /\ Raise(Exception("ValueError", "not found", benchmark_name))
                    /\ UNCHANGED <<spec, bidx, variant_dictionary>>
               ELSE IF \/ Contains(benchmark_name, "options")
                       \/ /\ IsNone(args.benchmark)
                          /\ Contains(benchmark_name, "_conv")
                          /\ ~args.include_convergence
               THEN /\ bidx' = bidx + 1
                    /\ UNCHANGED <<spec, pc, raised, exit_status, summary, variant_dictionary>>
               ELSE IF DatasetMissing(spec_entry, environ)
               THEN /\ Raise(Exception("ValueError", "DATASETS_DIR", benchmark_name))
                    /\ spec' = marked
                    /\ UNCHANGED <<bidx, variant_dictionary>>
               ELSE IF variant_list.raised
               THEN /\ Raise(Exception("ValueError", "parameters", benchmark_name))
                    /\ spec' = marked
                    /\ UNCHANGED <<bidx, variant_dictionary>>
               ELSE /\ spec' = marked
                    /\ variant_dictionary' = ItemsPut(variant_dictionary, benchmark_name,
                                                      variant_list.variants)
                    /\ bidx' = bidx + 1
                    /\ UNCHANGED <<pc, raised, exit_status, summary>>
    /\ UNCHANGED <<inputVars, benchmarks_list, rb, rv, result_list, results, variantVars,
                   childVars, threadVars, monitorVars, pollVars, running_children, spawned>>

\* check_env for one command: the poprun variable it names must be set
check_env_raises(cmd) == Contains(cmd, "$HOSTS") /\ ~environ.HOSTS

\* lines 605-607: the early environment check over all selected benchmarks
CheckEnv ==
    /\ UNCHANGED <<slurmVars, ioVars, libVars, call>>
    /\ pc = "check_env"
    /\ IF \E i \in 1..Len(variant_dictionary) :
              check_env_raises(Lookup(spec, variant_dictionary[i][1]).cmd)
       THEN Raise(Exception("EnvironmentError", "poprun variables", <<>>))
       ELSE pc' = "run" /\ UNCHANGED <<raised, exit_status, summary>>
    /\ UNCHANGED <<inputVars, spec, benchmarks_list, bidx, variant_dictionary, rb, rv, result_list,
                   results, variantVars, childVars, threadVars, monitorVars, pollVars,
                   running_children, spawned>>

\* ------------------------------------------------- run_benchmark_variant
CurBenchmarkName == variant_dictionary[rb][1]

CurVariant == variant_dictionary[rb][2][rv]

CurBenchmark == Lookup(spec, CurBenchmarkName)

\* lines 228-232: compile-only runs purge the metric definitions
PurgeForCompileOnly(benchmark_dict) ==
    IF args.compile_only THEN [benchmark_dict EXCEPT !.data = <<>>, !.derived = <<>>]
    ELSE benchmark_dict

\* lines 622-630 and 225-314: enter run_benchmark_variant for the next variant
VariantStart ==
    /\ UNCHANGED <<slurmVars, ioVars, libVars, call>>
    /\ pc = "run" /\ vpc = "idle"
    /\ rb <= Len(variant_dictionary)
    /\ rv <= Len(variant_dictionary[rb][2])
    /\ spec' = ItemsPut(spec, CurBenchmarkName, PurgeForCompileOnly(CurBenchmark))
    /\ need_to_run' = TRUE
    /\ monitor_log' = 0
    /\ exitcode' = 0
    /\ stdout' = <<>> /\ stderr' = <<>>
    /\ attempts' = 0
    /\ vpc' = "loop"
    /\ UNCHANGED <<inputVars, pc, benchmarks_list, bidx, variant_dictionary, rb, rv, result_list,
                   results, raised, exit_status, summary, childVars, threadVars, monitorVars, pollVars,
                   running_children, spawned>>

\* ---------------------------------------------- run_and_monitor_progress
\* lines 108-165: Popen, start proc_thread and (with --gc-monitor) monitor_thread
Spawn ==
    /\ UNCHANGED <<slurmVars, ioVars, libVars, call>>
    /\ pc = "run" /\ vpc = "loop" /\ need_to_run
    /\ proc' = "running" /\ status' = <<>> /\ child_out' = <<>> /\ child_err' = <<>>
    /\ returncode' = <<>> /\ t' = "reading" /\ outs' = <<<<>>, <<>>>>
    /\ t_monitor' = IF args.gc_monitor THEN "running" ELSE "none"
    /\ ipu_monitoring' = 0
    /\ total_time' = 0 /\ timeout_error' = FALSE /\ kill_called' = FALSE
    /\ attempts' = Min2(attempts + 1, MaxAttempts)
    /\ spawned' = IF spawned # <<>> /\ spawned[Len(spawned)] = CurVariant.name
                  THEN spawned ELSE Append(spawned, CurVariant.name)
    /\ running_children' = running_children + 1
    /\ vpc' = "supervise"
    /\ UNCHANGED <<inputVars, mainVars, need_to_run, stdout, stderr, exitcode, monitor_log>>

\* the child prints what it has to print and exits by itself
ChildExit ==
    /\ UNCHANGED <<slurmVars, ioVars, libVars, call>>
    /\ proc = "running"
    /\ \E o \in ChildOutputs : child_out' = o[1] /\ child_err' = o[2]
    /\ \E c \in ChildExitCodes : status' = Some(c)
    /\ proc' = "exited"
    /\ running_children' = running_children - 1
    /\ UNCHANGED <<inputVars, mainVars, variantVars, threadVars, monitorVars, pollVars, spawned>>

\* proc_thread, lines 114-142: the reads return no data once the child is gone,
\* communicate() reaps the child, the collected output is in outs, the thread ends
ProcThread ==
    /\ UNCHANGED <<slurmVars, ioVars, libVars, call>>
    /\ t = "reading" /\ proc = "exited"
    /\ outs' = <<child_out, child_err>>
    /\ returncode' = status
    /\ t' = "done"
    /\ UNCHANGED <<inputVars, mainVars, variantVars, childVars, monitorVars, pollVars,
                   running_children, spawned>>

\* monitor_thread, lines 147-158: one turn of `while t.is_alive()`
MonitorStep ==
    /\ UNCHANGED <<slurmVars, ioVars, libVars, call>>
    /\ t_monitor = "running"
    /\ IF t # "done"
       THEN ipu_monitoring' = 1 /\ UNCHANGED t_monitor
       ELSE t_monitor' = "done" /\ UNCHANGED ipu_monitoring
    /\ UNCHANGED <<inputVars, mainVars, variantVars, childVars, threadVars, pollVars,
                   running_children, spawned>>

\* the timeout test with a strict comparison
TimedOut_Strict(timeout, elapsed) == ~IsNone(timeout) /\ elapsed > timeout[1]

\* the timeout test of line 176
TimedOut(timeout, elapsed) == ~IsNone(timeout) /\ elapsed >= timeout[1]

\* lines 166-185 with proc_thread alive: count a second, kill on timeout
PollTick ==
    /\ UNCHANGED <<slurmVars, ioVars, libVars, call>>
    /\ vpc = "supervise" /\ t # "done"
    /\ total_time < MaxTime
    /\ total_time' = total_time + 1
    /\ IF TimedOut(args.timeout, total_time + 1)
       THEN /\ timeout_error' = TRUE
            /\ kill_called' = TRUE
            /\ IF proc = "running"
               THEN /\ proc' = "exited"
                    /\ status' = Some(-SIGKILL)
                    /\ running_children' = running_children - 1
                    \* what the child had printed when the signal arrived
                    /\ \E o \in ChildOutputs : child_out' = o[1] /\ child_err' = o[2]
               ELSE UNCHANGED <<childVars, running_children>>
       ELSE UNCHANGED <<timeout_error, kill_called, childVars, running_children>>
    /\ UNCHANGED <<inputVars, mainVars, variantVars, threadVars, monitorVars, spawned>>

\* the supervisor returns without joining monitor_thread
MonitorJoined_NoJoin(monitor_ipus, monitor_state) == TRUE

\* lines 170-171: t_monitor.join() returns once monitor_thread has ended
MonitorJoined(monitor_ipus, monitor_state) == monitor_ipus => monitor_state = "done"

\* the stderr returned by run_and_monitor_progress (lines 192-195)
ReturnedErr(err, timed_out, timeout) ==
    IF timed_out THEN Append(err, Line("Timeout", timeout[1], FALSE)) ELSE err

\* lines 169-172, 187-197 and 327: proc_thread has ended, join the monitor,
\* return (output, err, exitcode, ipu_monitoring) and evaluate the retry predicate
PollDone ==
    /\ UNCHANGED <<slurmVars, ioVars, libVars, call>>
    /\ vpc = "supervise" /\ t = "done"
    /\ MonitorJoined(args.gc_monitor, t_monitor)
    /\ LET output == outs[1]
           err == ReturnedErr(outs[2], timeout_error, args.timeout)
       IN /\ stdout' = output
          /\ stderr' = err
          /\ exitcode' = returncode[1]
          /\ need_to_run' = Truthy(should_reattempt_benchmark(CurBenchmark, output, err,
                                                              returncode[1]))
    /\ monitor_log' = ipu_monitoring
    /\ vpc' = "loop"
    \* the locals of the call go out of scope; the threads and the child stay as they ended
    /\ outs' = <<<<>>, <<>>>> /\ returncode' = <<>> /\ ipu_monitoring' = 0
    /\ child_out' = <<>> /\ child_err' = <<>> /\ status' = <<>>
    /\ total_time' = 0 /\ timeout_error' = FALSE
    /\ UNCHANGED <<inputVars, mainVars, attempts, proc, t, t_monitor, kill_called,
                   running_children, spawned>>

\* --stop-on-error without effect
StopOnError_Ignored(code, stop_on_error) == FALSE

\* lines 359-367: a failed process aborts the run under --stop-on-error
StopOnError(code, stop_on_error) == code # 0 /\ stop_on_error

\* the exit code of the process reported as it is
FinalExitCode_ProcessOnly(possible_failure_points, code) == code

\* lines 454-460: a metric failure forces the exit code of a clean process to 1
FinalExitCode(possible_failure_points, code) ==
    IF TRUE \in possible_failure_points /\ code = 0 THEN ForcedExitCode ELSE code

\* lines 331-466 of run_benchmark_variant after the retry loop:
\* [raised, variant_result, benchmark_dict]
VariantTail(benchmark_name, benchmark_dict, variant, out, err, code) ==
    LET extraction == extract_metrics(benchmark_dict.data, out, err, code,
                                      get_mpinum(benchmark_dict.cmd))
        data == [i \in 1..Len(benchmark_dict.data) |->
                    <<benchmark_dict.data[i][1], set_config_defaults(benchmark_dict.data[i][2])>>]
        extracted == IF args.additional_metrics
                     THEN additional_metrics(extraction.metrics, AdditionalNames)
                     ELSE extraction.metrics
        derivation == derive_metrics(benchmark_dict.derived, benchmark_dict.derived, variant.config,
                                     extracted, code)
        possible_failure_points == {extraction.failed, derivation.failed}
        variant_result ==
            [benchmark_name |-> benchmark_name,
             variant_name |-> variant.name,
             params |-> variant.config,
             results |-> process_registered_metrics(derivation.results),
             exitcode |-> FinalExitCode(possible_failure_points, code),
             \* history, not part of the dict the code builds
             process_exitcode |-> code,
             extracted |-> extraction.metrics]
    IN IF StopOnError(code, args.stop_on_error)
       THEN [raised |-> Exception("RuntimeError", "exit code", benchmark_name),
             variant_result |-> <<>>, benchmark_dict |-> benchmark_dict]
       ELSE IF derivation.raised
       THEN [raised |-> Exception("KeyError", "derive_metrics", benchmark_name),
             variant_result |-> <<>>,
             benchmark_dict |-> [benchmark_dict EXCEPT !.data = data, !.derived = derivation.config]]
       ELSE [raised |-> <<>>, variant_result |-> Some(variant_result),
             benchmark_dict |-> [benchmark_dict EXCEPT !.data = data, !.derived = derivation.config]]

\* the retry loop has ended: finish run_benchmark_variant, append the result (line 631)
VariantFinish ==
    /\ UNCHANGED <<slurmVars, ioVars, libVars, call>>
    /\ pc = "run" /\ vpc = "loop" /\ ~need_to_run
    /\ LET tail == VariantTail(CurBenchmarkName, CurBenchmark, CurVariant, stdout, stderr, exitcode)
       IN /\ spec' = ItemsPut(spec, CurBenchmarkName, tail.benchmark_dict)
          /\ IF tail.raised # <<>>
             THEN /\ Raise(tail.raised)
                  /\ UNCHANGED <<result_list, rv>>
             ELSE /\ result_list' = Append(result_list, tail.variant_result[1])
                  /\ rv' = rv + 1
                  /\ UNCHANGED <<pc, raised, exit_status, summary>>
    /\ vpc' = "idle"
    \* the locals of the call go out of scope
    /\ need_to_run' = FALSE /\ attempts' = 0
    /\ stdout' = <<>> /\ stderr' = <<>> /\ exitcode' = 0 /\ monitor_log' = 0
    /\ kill_called' = FALSE
    /\ UNCHANGED <<inputVars, benchmarks_list, bidx, variant_dictionary, rb, results, childVars,
                   threadVars, monitorVars, total_time, timeout_error, running_children, spawned>>

\* line 633: all variants of the benchmark have run
BenchmarkDone ==
    /\ UNCHANGED <<slurmVars, ioVars, libVars, call>>
    /\ pc = "run" /\ vpc = "idle"
    /\ rb <= Len(variant_dictionary)
    /\ rv > Len(variant_dictionary[rb][2])
    /\ results' = ItemsPut(results, CurBenchmarkName, result_list)
    /\ result_list' = <<>>
    /\ rb' = rb + 1
    /\ rv' = 1
    /\ UNCHANGED <<inputVars, spec, pc, benchmarks_list, bidx, variant_dictionary, raised,
                   exit_status, summary, variantVars, childVars, threadVars, monitorVars, pollVars,
                   running_children, spawned>>

\* print_benchmark_summary: one PASSED/FAILED line per variant result
RECURSIVE SummaryLines(_)
SummaryLines(res) ==
    IF res = <<>> THEN <<>>
    ELSE [i \in 1..Len(res[1][2]) |-> IF res[1][2][i].exitcode = 0 THEN "PASSED" ELSE "FAILED"]
         \o SummaryLines(Tail(res))

\* lines 635-641, then run_benchmarks and main return: the interpreter exits normally
Summarise ==
    /\ UNCHANGED <<slurmVars, ioVars, libVars, call>>
    /\ pc = "run" /\ vpc = "idle"
    /\ rb > Len(variant_dictionary)
    /\ summary' = SummaryLines(results)
    /\ pc' = "exited"
    /\ exit_status' = Some(ExitStatusOfMain(raised, results))
    /\ UNCHANGED <<inputVars, spec, benchmarks_list, bidx, variant_dictionary, rb, rv, result_list,
                   results, raised, variantVars, childVars, threadVars, monitorVars, pollVars,
                   running_children, spawned>>

Next ==
    \/ Start
    \/ Validate
    \/ CheckEnv
    \/ VariantStart
    \/ Spawn
    \/ ChildExit
    \/ ProcThread
    \/ MonitorStep
    \/ PollTick
    \/ PollDone
    \/ VariantFinish
    \/ BenchmarkDone
    \/ Summarise

Spec == Init /\ [][Next]_vars


\* the scheduler gives the retry loop, the child and the threads of the supervisor
\* their turns: a step of one of them that stays possible is eventually taken
FairSpec ==
    /\ Spec
    /\ WF_vars(Spawn) /\ WF_vars(ChildExit) /\ WF_vars(ProcThread)
    /\ WF_vars(MonitorStep) /\ WF_vars(PollTick) /\ WF_vars(PollDone)

\* ------------------------------------- run_and_monitor_progress_on_slurm
JOB_NAME == <<"gen", "thr", "bs", "1">>

SlurmConfigs == {[job_name |-> Some(JOB_NAME), timeout |-> tm] : tm \in Timeouts}

\* exit codes of the scancel command
ScancelExitCodes == {0, 1}

\* exit codes of a job, which `sbatch --wait` passes on
JobExitCodes == {0, 1}

\* kill_slurm_job that only warns when scancel fails
kill_slurm_job_Tolerant(rc, job_state) ==
    [raised |-> <<>>,
     job |-> IF rc = 0 /\ job_state = "running" THEN "cancelled" ELSE job_state]

\* kill_slurm_job, lines 643-664, once proc.kill() is done: scancel --jobname exits with rc;
\* [raised, job]
kill_slurm_job(rc, job_state) ==
    [raised |-> IF rc # 0 THEN Exception("SlurmBenchmarkError", "scancel", JOB_NAME) ELSE <<>>,
     job |-> IF rc = 0 /\ job_state = "running" THEN "cancelled" ELSE job_state]

\* a Python value of the returned tuple with its type: a str (log) or an int (exit code)
PyStr(text) == [type |-> "str", value |-> text]

PyInt(n) == [type |-> "int", value |-> n]

\* the logs the function hands back, and the stderr log with the marker of lines 798-799
StdoutLog == <<Text("stdout")>>

StderrLog(timed_out, timeout) ==
    IF timed_out THEN <<Text("stderr"), Line("Timeout", timeout[1], FALSE)>> ELSE <<Text("stderr")>>

SlurmInit ==
    /\ spec = <<>>
    /\ args \in {a \in ArgsUniverse : ~a.stop_on_error /\ ~a.gc_monitor /\ IsNone(a.timeout)}
    /\ environ \in {e \in Environs : e.DATASETS_DIR /\ e.HOSTS}
    /\ EngineStart
    /\ SlurmIdle
    /\ IoIdle
    /\ LibIdle
    /\ call = NoCall

\* lines 701-716 (and line 317 for a re-attempt): Popen, atexit.register, the locals
SlurmCall ==
    /\ \/ slurm_pc = "idle" /\ slurm_config' \in SlurmConfigs
       \/ slurm_pc = "returned" /\ slurm_attempts < MaxAttempts /\ UNCHANGED slurm_config
    /\ sbatch' = "running" /\ sbatch_status' = <<>>
    /\ job' = "none"
    /\ atexit_hooks' = atexit_hooks + 1
    /\ job_submitted' = FALSE /\ log_paths' = FALSE
    /\ slurm_time' = 0 /\ slurm_timeout_error' = FALSE
    /\ scancel' = <<>>
    /\ slurm_ret' = <<>>
    /\ slurm_attempts' = slurm_attempts + 1
    /\ slurm_pc' = "submit"
    /\ UNCHANGED <<engineVars, ioVars, libVars, call, log_files, slurm_raised>>

\* sbatch has the job accepted and prints "Submitted batch job <id>"
SbatchSubmits ==
    /\ sbatch = "running" /\ job = "none"
    /\ job' = "running"
    /\ UNCHANGED <<engineVars, ioVars, libVars, call, slurm_pc, slurm_config, sbatch, sbatch_status, job_submitted,
                   log_files, log_paths, slurm_time, slurm_timeout_error, atexit_hooks, scancel,
                   slurm_ret, slurm_raised, slurm_attempts>>

\* the queue turns the submission down: sbatch exits nonzero without a job
SbatchRejected ==
    /\ sbatch = "running" /\ job = "none"
    /\ sbatch' = "exited" /\ sbatch_status' = Some(1)
    /\ UNCHANGED <<engineVars, ioVars, libVars, call, slurm_pc, slurm_config, job, job_submitted, log_files,
                   log_paths, slurm_time, slurm_timeout_error, atexit_hooks, scancel, slurm_ret,
                   slurm_raised, slurm_attempts>>

\* the running job opens its -o and -e files
LogFilesAppear ==
    /\ job = "running" /\ ~log_files
    /\ log_files' = TRUE
    /\ UNCHANGED <<engineVars, ioVars, libVars, call, slurm_pc, slurm_config, sbatch, sbatch_status, job,
                   job_submitted, log_paths, slurm_time, slurm_timeout_error, atexit_hooks,
                   scancel, slurm_ret, slurm_raised, slurm_attempts>>

\* the job ends and `sbatch --wait` exits with its exit code
JobEnds ==
    /\ sbatch = "running" /\ job = "running"
    /\ job' = "completed"
    /\ sbatch' = "exited"
    /\ \E c \in JobExitCodes : sbatch_status' = Some(c)
    /\ UNCHANGED <<engineVars, ioVars, libVars, call, slurm_pc, slurm_config, job_submitted, log_files, log_paths,
                   slurm_time, slurm_timeout_error, atexit_hooks, scancel, slurm_ret,
                   slurm_raised, slurm_attempts>>

\* the submission process is killed from outside while its job goes on running
SbatchDies ==
    /\ sbatch = "running" /\ job = "running"
    /\ sbatch' = "exited" /\ sbatch_status' = Some(-SIGKILL)
    /\ UNCHANGED <<engineVars, ioVars, libVars, call, slurm_pc, slurm_config, job, job_submitted, log_files,
                   log_paths, slurm_time, slurm_timeout_error, atexit_hooks, scancel, slurm_ret,
                   slurm_raised, slurm_attempts>>

\* lines 717-729, one turn of the loop that waits for the submission: readline returns
\* once sbatch has printed its line, then the log files are looked for
SubmitPoll ==
    /\ slurm_pc = "submit" /\ sbatch = "running" /\ ~log_paths
    /\ IF job_submitted
       THEN log_paths' = log_files /\ UNCHANGED job_submitted
       ELSE job # "none" /\ job_submitted' = TRUE /\ UNCHANGED log_paths
    /\ UNCHANGED <<engineVars, ioVars, libVars, call, slurm_pc, slurm_config, sbatch, sbatch_status, job, log_files,
                   slurm_time, slurm_timeout_error, atexit_hooks, scancel, slurm_ret,
                   slurm_raised, slurm_attempts>>

\* line 717: the loop ends when sbatch has exited or both paths are known
SubmitDone ==
    /\ slurm_pc = "submit" /\ (sbatch = "exited" \/ log_paths)
    /\ slurm_pc' = "check"
    /\ UNCHANGED <<engineVars, ioVars, libVars, call, slurm_config, sbatch, sbatch_status, job, job_submitted,
                   log_files, log_paths, slurm_time, slurm_timeout_error, atexit_hooks, scancel,
                   slurm_ret, slurm_raised, slurm_attempts>>

\* lines 733-752, "something unexpected occurred": sbatch has exited already
SlurmCheck ==
    /\ slurm_pc = "check"
    /\ IF sbatch = "running"
       THEN /\ slurm_pc' = "poll"
            /\ UNCHANGED <<job, atexit_hooks, scancel, slurm_ret, slurm_raised, log_paths>>
       ELSE LET exitcode_ == sbatch_status[1]
            IN IF exitcode_ # 0
               THEN \E rc \in ScancelExitCodes :
                       LET k == kill_slurm_job(rc, job)
                       IN /\ scancel' = Append(scancel, rc)
                          /\ job' = k.job
                          /\ IF k.raised # <<>>
                             THEN /\ slurm_raised' = k.raised
                                  /\ slurm_pc' = "raised"
                                  /\ UNCHANGED <<atexit_hooks, slurm_ret, log_paths>>
                             ELSE /\ atexit_hooks' = 0
                                  /\ UNCHANGED slurm_raised
                                  /\ IF log_files
                                     THEN /\ log_paths' = TRUE /\ slurm_pc' = "poll"
                                          /\ UNCHANGED slurm_ret
                                     ELSE /\ slurm_ret' = <<PyInt(exitcode_), PyStr(StdoutLog),
                                                            PyStr(StderrLog(FALSE, <<>>))>>
                                          /\ slurm_pc' = "returned"
                                          /\ UNCHANGED log_paths
               ELSE /\ UNCHANGED <<job, atexit_hooks, scancel, slurm_raised>>
                    /\ IF log_files
                       THEN log_paths' = TRUE /\ slurm_pc' = "poll" /\ UNCHANGED slurm_ret
                       ELSE /\ slurm_ret' = <<PyInt(exitcode_), PyStr(StdoutLog),
                                            PyStr(StderrLog(FALSE, <<>>))>>
                            /\ slurm_pc' = "returned"
                            /\ UNCHANGED log_paths
    /\ UNCHANGED <<engineVars, ioVars, libVars, call, slurm_config, sbatch, sbatch_status, job_submitted, log_files,
                   slurm_time, slurm_timeout_error, slurm_attempts>>

\* lines 758-785, one turn of the polling loop: a second passes, kill on timeout
SlurmPoll ==
    /\ slurm_pc = "poll" /\ sbatch = "running"
    /\ slurm_time < MaxTime
    /\ slurm_time' = slurm_time + 1
    /\ IF TimedOut(slurm_config.timeout, slurm_time + 1)
       THEN /\ slurm_timeout_error' = TRUE
            /\ sbatch' = "exited" /\ sbatch_status' = Some(-SIGKILL)
            /\ \E rc \in ScancelExitCodes :
                  LET k == kill_slurm_job(rc, job)
                  IN /\ scancel' = Append(scancel, rc)
                     /\ job' = k.job
                     /\ IF k.raised # <<>>
                        THEN /\ slurm_raised' = k.raised
                             /\ slurm_pc' = "raised"
                             /\ UNCHANGED atexit_hooks
                        ELSE /\ atexit_hooks' = 0
                             /\ UNCHANGED <<slurm_raised, slurm_pc>>
       ELSE UNCHANGED <<slurm_timeout_error, sbatch, sbatch_status, scancel, job, slurm_raised,
                        slurm_pc, atexit_hooks>>
    /\ UNCHANGED <<engineVars, ioVars, libVars, call, slurm_config, job_submitted, log_files, log_paths, slurm_ret,
                   slurm_attempts>>

\* lines 787-806: sbatch has exited, the logs are read, the hook is unregistered
SlurmReturn ==
    /\ slurm_pc = "poll" /\ sbatch = "exited"
    /\ slurm_ret' = <<PyStr(StdoutLog),
                      PyStr(StderrLog(slurm_timeout_error, slurm_config.timeout)),
                      PyInt(sbatch_status[1])>>
    /\ atexit_hooks' = 0
    /\ slurm_pc' = "returned"
    /\ UNCHANGED <<engineVars, ioVars, libVars, call, slurm_config, sbatch, sbatch_status, job, job_submitted,
                   log_files, log_paths, slurm_time, slurm_timeout_error, scancel, slurm_raised,
                   slurm_attempts>>

SlurmNext ==
    \/ SlurmCall
    \/ SbatchSubmits
    \/ SbatchRejected
    \/ LogFilesAppear
    \/ JobEnds
    \/ SbatchDies
    \/ SubmitPoll
    \/ SubmitDone
    \/ SlurmCheck
    \/ SlurmPoll
    \/ SlurmReturn

SlurmSpec == SlurmInit /\ [][SlurmNext]_vars

\* ------------------------------------------- the functions on their own
\* matches of one metric's regexp in the captured output
MaxMatches == 3

\* largest 'skip' of a metric
MaxSkip == 2

\* value tuples of a list-style 'parameters'
MaxRows == 2

\* values of one parameter of a dict-style 'parameters'
MaxVals == 2

\* entries of a 'derived' dict
MaxDerived == 2

RECURSIVE SeqsOfLen(_, _)
SeqsOfLen(S, n) == IF n = 0 THEN {<<>>} ELSE {Append(q, x) : q \in SeqsOfLen(S, n - 1), x \in S}

SeqsUpTo(S, n) == UNION {SeqsOfLen(S, k) : k \in 0..n}

Distinct(s) == \A i, j \in 1..Len(s) : i # j => s[i] # s[j]

ReductionKinds == {"mean", "final", "min", "value"}

\* metric name and replica count of the command
MetricNames == {<<"loss", 1>>, <<"latency", 1>>, <<"throughput", 2>>}

MatchValues == {1, 2, 3}

\* the lines of a log that the regexp of `name` matches, a "nan" among them
MatchLines(name) == {Line(name, v, FALSE) : v \in MatchValues} \cup {Line(name, 0, TRUE)}

\* one call of extract_metrics: the first k matches are in stdout, the rest in stderr
ExtractInput(nm, skip, kind, matches, k, code) ==
    [name |-> nm[1], num_replicas |-> nm[2],
     metric |-> Metric(nm[1], skip, kind),
     stdout |-> <<Text("epoch")>> \o SubSeq(matches, 1, Min2(k, Len(matches))),
     stderr |-> SubSeq(matches, Min2(k, Len(matches)) + 1, Len(matches)),
     exitcode |-> code]

Skips == {<<>>} \cup {Some(n) : n \in 1..MaxSkip}

Reductions == {<<>>} \cup {Some(r) : r \in ReductionKinds}

\* the matches carry the metric's own name as their token
Renamed(text, name) == [i \in 1..Len(text) |-> IF text[i].tok = "m" THEN [text[i] EXCEPT !.tok = name]
                                                 ELSE text[i]]

DerivedRules ==
    {<<"ratio", Derived([op |-> "ref", a |-> "loss"], r)>> : r \in {<<>>, Some("final")}}
    \cup {<<"per", Derived([op |-> "div", a |-> "loss", b |-> "bs"], r)>> : r \in {<<>>, Some("final")}}
    \cup {<<"again", Derived([op |-> "ref", a |-> "ratio"], r)>> : r \in {<<>>, Some("final")}}

DeriveInputs ==
    {[derivation_config |-> dc,
      benchmark_config |-> [k \in {"bs"} |-> bs],
      results |-> << <<"loss", Entry(kind, value)>> >>,
      exitcode |-> code] :
        dc \in {d \in SeqsUpTo(DerivedRules, MaxDerived) :
                   d # <<>> /\ Distinct([i \in 1..Len(d) |-> d[i][1]])},
        bs \in {"0", "1", "2"},
        kind \in ReductionKinds,
        value \in {<<>>, Some(Num(2))},
        code \in ChildExitCodes}

ParamNames == {<<"bs">>, <<"bs", "ga">>, <<"ga", "bs">>}

ParamValues == {"1", "2", "3"}

ListParameters ==
    {[style |-> "list", list |-> <<names>> \o rows] :
        names \in ParamNames,
        rows \in SeqsUpTo(SeqsUpTo({"1", "2"}, 2), MaxRows)}

DictParameters ==
    {[style |-> "dict", items |-> [i \in 1..Len(names) |-> <<names[i], vals[i]>>]] :
        names \in ParamNames \cup {<<>>},
        vals \in SeqsOfLen(SeqsUpTo(ParamValues, MaxVals) \ {<<>>}, 2)}

VariantInputs ==
    {Benchmark(parameters, FALSE, PlainCmd, <<>>, <<>>) :
        parameters \in ListParameters \cup DictParameters \cup {[style |-> "none"], [style |-> "bad"]}}

\* benchmark names of a spec file; one reads as another followed by "_bs_1"
BenchmarkNames == {<<"a">>, <<"a", "bs", "1">>, <<"b">>}

NamedParameters ==
    {[style |-> "none"],
     [style |-> "dict", items |-> << <<"bs", <<"1", "2">> >> >>],
     [style |-> "dict", items |-> << <<"ga", <<"1">> >>, <<"bs", <<"1", "2">> >> >>],
     [style |-> "list", list |-> << <<"bs", "ga">>, <<"1", "2">>, <<"2">> >>],
     [style |-> "list", list |-> << <<"bs">>, <<"1">>, <<"1">> >>]}

SameNameTwice ==
    {<< <<n, Benchmark(p1, FALSE, PlainCmd, <<>>, <<>>)>>, <<n, Benchmark(p2, FALSE, PlainCmd, <<>>, <<>>)>> >> :
        n \in BenchmarkNames, p1 \in NamedParameters, p2 \in NamedParameters}

\* spec files of two benchmarks with different names
SpecInputs ==
    {<< <<n1, Benchmark(p1, FALSE, PlainCmd, <<>>, <<>>)>>,
        <<n2, Benchmark(p2, FALSE, PlainCmd, <<>>, <<>>)>> >> :
        n1 \in BenchmarkNames, n2 \in BenchmarkNames,
        p1 \in NamedParameters, p2 \in NamedParameters} \ SameNameTwice

\* ----------------------------------------------------- host discovery
\* entries of a '--host' list
MaxHosts == 3

\* what this machine is called: os.uname()[1] and the addresses `hostname -I` prints
UNAME == "node0"

LocalAddresses == <<"10.0.0.12", "10.0.0.13">>

HostEntries == {"node0", "10.0.0.12", "10.0.0.13", "10.0.0.1", "node1"}

\* Python `a in b` for two of these strings
IsSubstring(a, b) == a = b \/ (a = "10.0.0.1" /\ b \in {"10.0.0.12", "10.0.0.13"})

\* list.remove(x): the first occurrence goes
RemoveFirst(list, x) == RemoveAt(list, CHOOSE i \in 1..Len(list) : list[i] = x /\ \A j \in 1..(i - 1) : list[j] # x)

\* for hostname in poprun_hostnames: ... poprun_hostnames.remove(hostname), the
\* iterator going on to the next index of the list as it then is
RECURSIVE RemoveLocal(_, _, _)
RemoveLocal(poprun_hostnames, i, possible_hostnames) ==
    IF i > Len(poprun_hostnames) THEN poprun_hostnames
    ELSE IF \E x \in 1..Len(possible_hostnames) : IsSubstring(poprun_hostnames[i], possible_hostnames[x])
         THEN RemoveLocal(RemoveFirst(poprun_hostnames, poprun_hostnames[i]), i + 1, possible_hostnames)
         ELSE RemoveLocal(poprun_hostnames, i + 1, possible_hostnames)

\* get_local_poprun_hosts; host is None or the list; hostname_I is the output of
\* `hostname -I`, or None when the call raised
get_local_poprun_hosts(host, hostname_I) ==
    IF IsNone(host) THEN <<>>
    ELSE LET poprun_hostnames == host[1]
             num_hosts == Len(poprun_hostnames)
             possible_hostnames == IF IsNone(hostname_I) THEN <<"">> ELSE hostname_I[1]
             remaining == RemoveLocal(poprun_hostnames, 1, possible_hostnames)
         IN IF Len(remaining) = num_hosts THEN Tail(remaining) ELSE remaining

HostInputs ==
    {[host |-> h, hostname_I |-> o] :
        h \in {<<>>} \cup {Some(l) : l \in SeqsUpTo(HostEntries, MaxHosts) \ {<<>>}},
        o \in {<<>>, Some(LocalAddresses), Some(SubSeq(LocalAddresses, 1, 1))}}

\* the three directories setup_distributed_filesystems copies to every host
DirsToSync == <<"examples_path", "sdk_path", "venv_path">>

\* setup_distributed_filesystems: the rsync calls, itertools.product(hosts, dirs)
setup_distributed_filesystems(poprun_hostnames) ==
    [n \in 1..(Len(poprun_hostnames) * Len(DirsToSync)) |->
        <<poprun_hostnames[((n - 1) \div Len(DirsToSync)) + 1], DirsToSync[((n - 1) % Len(DirsToSync)) + 1]>>]

\* run_benchmark_variant, line 288
is_distributed(poprun_hostnames, compile_only) == Len(poprun_hostnames) > 1 /\ ~compile_only

\* run_benchmark_variant, lines 284-298: [poprun_hostnames, rsync]; the hosts are
\* not looked for when the variant is submitted on SLURM
prepare_hosts(a) ==
    IF a.submit_on_slurm THEN [poprun_hostnames |-> <<>>, rsync |-> <<>>]
    ELSE LET poprun_hostnames == get_local_poprun_hosts(a.host, a.hostname_I)
         IN [poprun_hostnames |-> poprun_hostnames,
             rsync |-> IF is_distributed(poprun_hostnames, a.compile_only) /\ ~a.no_code_sync
                       THEN setup_distributed_filesystems(poprun_hostnames)
                       ELSE <<>>]

PrepareInputs ==
    {[host |-> h.host, hostname_I |-> h.hostname_I, submit_on_slurm |-> sl,
      compile_only |-> co, no_code_sync |-> ns] :
        h \in HostInputs, sl \in BOOLEAN, co \in BOOLEAN, ns \in BOOLEAN}

\* the command line of the calls: no stop-on-error, monitor or timeout
FunctionArgs == {a \in ArgsUniverse : ~a.stop_on_error /\ ~a.gc_monitor /\ IsNone(a.timeout)}

\* one call of run_benchmark_variant: a loaded benchmark, its first variant, and
\* what the child of the single attempt printed and returned
RunInputs ==
    {[benchmark_name |-> b[1], benchmark_dict |-> b[2], out |-> o[1], err |-> o[2], code |-> c] :
        b \in {x \in BenchmarkUniverse : x[2].parameters.style # "bad"},
        o \in ChildOutputs, c \in ChildExitCodes}

\* the benchmark definition as one call of run_benchmark_variant leaves it: the
\* purge of lines 228-232, then the in-place defaults of extract and derive
DefinitionAfterVariant(a, benchmark_dict) ==
    VariantTail(a.benchmark_name, PurgeForCompileOnly(benchmark_dict),
                get_benchmark_variants(a.benchmark_name, benchmark_dict).variants[1],
                a.out, a.err, a.code).benchmark_dict

\* ------------------------------------------ expand_environment_variables
EnvVars == {"HOSTS", "DATASETS_DIR"}

EnvValues == {"a", "b"}

\* an environment: the variables that are set, with their values
Environments == UNION {[D -> EnvValues] : D \in SUBSET EnvVars}

CmdTokens == {"python3", "$HOSTS", "$DATASETS_DIR"}

VarOf(tok) == CASE tok = "$HOSTS" -> "HOSTS" [] tok = "$DATASETS_DIR" -> "DATASETS_DIR" [] OTHER -> ""

\* os.path.expandvars against os.environ: a $NAME that is set is replaced, any other text stays
expandvars(cmd, os_environ) ==
    [i \in 1..Len(cmd) |-> IF VarOf(cmd[i]) \in DOMAIN os_environ THEN os_environ[VarOf(cmd[i])] ELSE cmd[i]]

\* a restore that leaves the temporary environment bound
restore_environ_Kept(orig_env, new_env) == new_env

\* line 287: os.environ = orig_env
restore_environ(orig_env, new_env) == orig_env

ExpandCalls ==
    {[fn |-> "expand_environment_variables", arg |-> [cmd |-> cmd, new_env |-> ne, os_environ |-> oe],
      returned |-> FALSE, ret |-> <<>>,
      step |-> "called", os_environ |-> oe, orig_env |-> <<>>] :
        cmd \in SeqsUpTo(CmdTokens, 2) \ {<<>>}, ne \in Environments, oe \in Environments}

NewCall(fn, arg) == [fn |-> fn, arg |-> arg, returned |-> FALSE, ret |-> <<>>]

FunctionInit ==
    /\ spec = <<>>
    /\ environ \in {e \in Environs : e.DATASETS_DIR /\ e.HOSTS}
    /\ EngineStart
    /\ SlurmIdle
    /\ IoIdle
    /\ LibIdle
    /\ \/ \E nm \in MetricNames, skip \in Skips, kind \in Reductions, k \in 0..MaxMatches,
             code \in ChildExitCodes :
             \E matches \in SeqsUpTo(MatchLines("m"), MaxMatches) :
                call = NewCall("extract_metrics", ExtractInput(nm, skip, kind, matches, k, code))
       \/ \E a \in DeriveInputs : call = NewCall("derive_metrics", a)
       \/ \E a \in VariantInputs : call = NewCall("create_variants", a)
       \/ \E a \in SpecInputs : call = NewCall("get_benchmark_variants", a)
       \/ \E a \in HostInputs : call = NewCall("get_local_poprun_hosts", a)
       \/ \E a \in PrepareInputs : call = NewCall("prepare_hosts", a)
       \/ \E a \in RunInputs : call = NewCall("run_benchmark_variant", a)
       \/ call \in ExpandCalls
    /\ args \in IF call.fn = "run_benchmark_variant"
                THEN {[a EXCEPT !.compile_only = c] : a \in FunctionArgs, c \in BOOLEAN}
                ELSE FunctionArgs

CallExtractMetrics ==
    /\ call.fn = "extract_metrics" /\ ~call.returned
    /\ LET a == call.arg
       IN call' = [call EXCEPT !.returned = TRUE,
                               !.ret = extract_metrics(<< <<a.name, a.metric>> >>,
                                                       Renamed(a.stdout, a.name),
                                                       Renamed(a.stderr, a.name),
                                                       a.exitcode, a.num_replicas)]
    /\ UNCHANGED <<engineVars, slurmVars, ioVars, libVars>>

CallDeriveMetrics ==
    /\ call.fn = "derive_metrics" /\ ~call.returned
    /\ LET a == call.arg
       IN call' = [call EXCEPT !.returned = TRUE,
                               !.ret = derive_metrics(a.derivation_config, a.derivation_config,
                                                      a.benchmark_config, a.results, a.exitcode)]
    /\ UNCHANGED <<engineVars, slurmVars, ioVars, libVars>>

CallCreateVariants ==
    /\ call.fn = "create_variants" /\ ~call.returned
    /\ call' = [call EXCEPT !.returned = TRUE, !.ret = create_variants(call.arg)]
    /\ UNCHANGED <<engineVars, slurmVars, ioVars, libVars>>

\* the loop of run_benchmarks_from_spec, lines 593-596: variant_dictionary as a list of
\* <<benchmark_name, variant_list>>
CallGetBenchmarkVariants ==
    /\ call.fn = "get_benchmark_variants" /\ ~call.returned
    /\ call' = [call EXCEPT !.returned = TRUE,
                            !.ret = [i \in 1..Len(call.arg) |->
                                        <<call.arg[i][1],
                                          get_benchmark_variants(call.arg[i][1], call.arg[i][2]).variants>>]]
    /\ UNCHANGED <<engineVars, slurmVars, ioVars, libVars>>

CallGetLocalPoprunHosts ==
    /\ call.fn = "get_local_poprun_hosts" /\ ~call.returned
    /\ call' = [call EXCEPT !.returned = TRUE,
                            !.ret = get_local_poprun_hosts(call.arg.host, call.arg.hostname_I)]
    /\ UNCHANGED <<engineVars, slurmVars, ioVars, libVars>>

CallPrepareHosts ==
    /\ call.fn = "prepare_hosts" /\ ~call.returned
    /\ call' = [call EXCEPT !.returned = TRUE, !.ret = prepare_hosts(call.arg)]
    /\ UNCHANGED <<engineVars, slurmVars, ioVars, libVars>>

\* run_benchmark_variant twice on the same loaded definition, as for two variants
CallRunBenchmarkVariant ==
    /\ call.fn = "run_benchmark_variant" /\ ~call.returned
    /\ LET first == DefinitionAfterVariant(call.arg, call.arg.benchmark_dict)
       IN call' = [call EXCEPT !.returned = TRUE,
                               !.ret = [first |-> first,
                                        second |-> DefinitionAfterVariant(call.arg, first)]]
    /\ UNCHANGED <<engineVars, slurmVars, ioVars, libVars>>

\* lines 282-283: orig_env = copy.deepcopy(os.environ); os.environ = new_env
ExpandSetEnviron ==
    /\ call.fn = "expand_environment_variables" /\ call.step = "called"
    /\ call' = [call EXCEPT !.orig_env = Some(call.os_environ),
                            !.os_environ = call.arg.new_env,
                            !.step = "set"]
    /\ UNCHANGED <<engineVars, slurmVars, ioVars, libVars>>

\* line 286: cmd = os.path.expandvars(cmd)
ExpandVars ==
    /\ call.fn = "expand_environment_variables" /\ call.step = "set"
    /\ call' = [call EXCEPT !.ret = expandvars(call.arg.cmd, call.os_environ), !.step = "expanded"]
    /\ UNCHANGED <<engineVars, slurmVars, ioVars, libVars>>

\* lines 287-289: os.environ = orig_env; return cmd
ExpandRestore ==
    /\ call.fn = "expand_environment_variables" /\ call.step = "expanded"
    /\ call' = [call EXCEPT !.os_environ = restore_environ(call.orig_env[1], call.arg.new_env),
                            !.returned = TRUE, !.step = "returned"]
    /\ UNCHANGED <<engineVars, slurmVars, ioVars, libVars>>

FunctionNext ==
    \/ CallExtractMetrics
    \/ CallDeriveMetrics
    \/ CallCreateVariants
    \/ CallGetBenchmarkVariants
    \/ CallGetLocalPoprunHosts
    \/ CallPrepareHosts
    \/ CallRunBenchmarkVariant
    \/ ExpandSetEnviron
    \/ ExpandVars
    \/ ExpandRestore

FunctionSpec == FunctionInit /\ [][FunctionNext]_vars

\* ================================================================ claims
\* every variant result the run has produced so far
EmittedResults ==
    {result_list[i] : i \in 1..Len(result_list)}
    \cup UNION {{results[b][2][i] : i \in 1..Len(results[b][2])} : b \in 1..Len(results)}

\* a raw metric of the result, or a metric derived for its benchmark, has no value
MetricAbsent(r) ==
    \/ \E i \in 1..Len(r.extracted) : IsNone(r.extracted[i][2].value)
    \/ \E i \in 1..Len(r.results) :
          /\ r.results[i][1] \in Keys(Lookup(spec, r.benchmark_name).derived)
          /\ IsNone(r.results[i][2].value)

\* steps of the two places the claims speak about
SpawnStep == vpc = "loop" /\ vpc' = "supervise"

ReturnStep == vpc = "supervise" /\ vpc' = "loop"

FinishStep == vpc = "loop" /\ vpc' = "idle"

\* an attempt has returned and the retry loop has its outcome in hand
AttemptReturned == vpc = "loop" /\ attempts > 0

TimeoutMarker == Line("Timeout", args.timeout[1], FALSE)

\* C1: the exit code of a variant result is nonzero whenever the process exit
\* code was nonzero or a raw or derived metric is absent; it is zero only when
\* the process exited zero and no metric is absent.
C1_ResultExitCode ==
    \A r \in EmittedResults :
        /\ (r.process_exitcode # 0 \/ MetricAbsent(r)) => r.exitcode # 0
        /\ r.exitcode = 0 => (r.process_exitcode = 0 /\ ~MetricAbsent(r))

\* a clean process whose metric could not be extracted got a nonzero exit code
C1_Witness ==
    \E r \in EmittedResults : r.process_exitcode = 0 /\ MetricAbsent(r) /\ r.exitcode # 0

C3_NoRetryAfterTimeout ==
    /\ [](AttemptReturned /\ HasToken(stderr, "Timeout") => ~need_to_run)
    /\ [][(AttemptReturned /\ HasToken(stderr, "Timeout")) => ~SpawnStep]_vars

\* a timed-out notebook attempt that has every other sign of a retryable failure
C3_Witness ==
    /\ AttemptReturned /\ HasToken(stderr, "Timeout")
    /\ Contains(CurBenchmark.cmd, NOTEBOOK_MODULE)
    /\ HasToken(stderr, "ModuleNotFoundError")
    /\ HasToken(stdout, "Successfully installed")
    /\ exitcode # 0
    /\ ~need_to_run

\* C4: the retry loop of a variant always ends, also when every attempt fails
\* in the same retryable way.
C4_RetryLoopEnds == (vpc = "supervise") ~> (vpc = "loop" /\ ~need_to_run)

\* what has run before the variant now at hand has its result collected
PreviousCollected ==
    /\ Len(result_list) = rv - 1
    /\ Len(results) = rb - 1
    /\ \A b \in 1..(rb - 1) :
          /\ results[b][1] = variant_dictionary[b][1]
          /\ Len(results[b][2]) = Len(variant_dictionary[b][2])

\* C5: no two children are alive at once; a child is spawned only after the
\* previous child has terminated, its output and monitor threads have finished
\* and the results of the variants before it have been collected.
C5_OneChildAtATime ==
    /\ [](running_children <= 1)
    /\ [][SpawnStep => /\ running_children = 0 /\ proc # "running"
                       /\ t # "reading" /\ t_monitor # "running"
                       /\ PreviousCollected]_vars

\* the child of a second variant is running, the first variant's result is in
C5_Witness ==
    /\ proc = "running" /\ Len(spawned) >= 2
    /\ args.gc_monitor
    /\ Len(result_list) + Len(results) >= 1

\* C6: when the process of a variant has exited nonzero, under stop-on-error the
\* run aborts with an error and no later variant starts; otherwise the failure
\* is recorded in the variant result and the run goes on to the next variant.
C6_ProcessFailure ==
    /\ [][(FinishStep /\ exitcode # 0) =>
            IF args.stop_on_error
            THEN /\ pc' = "exited" /\ raised' # <<>> /\ raised'[1] = "RuntimeError"
                 /\ result_list' = result_list /\ results' = results
            ELSE /\ pc' = "run" /\ raised' = <<>>
                 /\ rv' = rv + 1
                 /\ Len(result_list') = Len(result_list) + 1
                 /\ result_list'[Len(result_list')].process_exitcode = exitcode
                 /\ result_list'[Len(result_list')].exitcode # 0]_vars
    /\ [][pc = "exited" => spawned' = spawned]_vars

\* a failure is on record and the child of a later variant is running
C6_Witness ==
    /\ ~args.stop_on_error
    /\ \E r \in EmittedResults : r.process_exitcode # 0
    /\ proc = "running"

\* the metrics of the attempt at hand cannot all be extracted
ExtractionFails ==
    extract_metrics(CurBenchmark.data, stdout, stderr, exitcode,
                    get_mpinum(CurBenchmark.cmd)).failed

\* C7: when the process exited zero and metric extraction or derivation fails,
\* the failure is recorded, the exit code of the result is forced nonzero and
\* the run continues, with or without stop-on-error.
C7_MetricFailure ==
    [][(FinishStep /\ exitcode = 0 /\ ExtractionFails) =>
          /\ pc' = "run" /\ raised' = <<>>
          /\ Len(result_list') = Len(result_list) + 1
          /\ result_list'[Len(result_list')].exitcode # 0]_vars

\* the names the run selects, and whether one of them needs a dataset
SelectedNames ==
    LET names == IF IsNone(args.benchmark) THEN {spec[i][1] : i \in 1..Len(spec)}
                 ELSE {args.benchmark[1][i] : i \in 1..Len(args.benchmark[1])}
    IN {n \in names : /\ ~Contains(n, "options")
                      /\ ~(IsNone(args.benchmark) /\ Contains(n, "_conv")
                           /\ ~args.include_convergence)}

NeedsDataset(i) ==
    /\ spec[i][1] \in SelectedNames
    /\ ~(spec[i][2].generated \/ spec[i][2].synthetic)
    /\ ~(Contains(spec[i][1], "gen") \/ Contains(spec[i][1], "synth"))

\* C8: if a selected benchmark that is not generated or synthetic is requested
\* while DATASETS_DIR is unset, the invocation fails with an error before any
\* child is spawned, whatever the benchmark's position in the list.
C8_DatasetsDirChecked ==
    (~environ.DATASETS_DIR /\ \E i \in 1..Len(spec) : NeedsDataset(i)) =>
        /\ spawned = <<>> /\ proc = "none" /\ running_children = 0
        /\ pc \in {"start", "validate", "exited"}
        /\ pc = "exited" => (raised # <<>> /\ exit_status = Some(UncaughtExceptionStatus))

\* the benchmark that needs the dataset came second, after a validated sibling
C8_Witness ==
    /\ ~environ.DATASETS_DIR
    /\ Len(spec) >= 2 /\ NeedsDataset(2)
    /\ Len(variant_dictionary) = 1
    /\ pc = "exited" /\ raised = <<"ValueError", "DATASETS_DIR", spec[2][1]>>
    /\ spawned = <<>>

Malformed(i) ==
    /\ spec[i][1] \in SelectedNames
    /\ spec[i][2].parameters.style \notin {"none", "list", "dict"}

\* C9 as stated: a malformed parameter spec is fatal for that benchmark only;
\* the siblings validated before it still run.
C9_SiblingsStillRun ==
    (pc = "exited" /\ raised # <<>> /\ raised[2] = "parameters") =>
        \A b \in 1..Len(variant_dictionary) : variant_dictionary[b][1] \in Keys(results)

\* C9: a malformed parameter spec is fatal for the whole invocation: the error
\* names the benchmark and is raised during validation, so no variant of any
\* benchmark is spawned, the siblings validated before it included.
C9_MalformedAbortsAll ==
    /\ (\E i \in 1..Len(spec) : Malformed(i)) =>
          /\ spawned = <<>> /\ proc = "none" /\ results = <<>>
          /\ pc \in {"start", "validate", "exited"}
          /\ pc = "exited" => (raised # <<>> /\ exit_status = Some(UncaughtExceptionStatus))
    /\ (raised # <<>> /\ raised[2] = "parameters") =>
          /\ raised[1] = "ValueError"
          /\ \E i \in 1..Len(spec) : Malformed(i) /\ spec[i][1] = raised[3]

\* the malformed benchmark came after a sibling that had been validated
C9_Witness ==
    /\ pc = "exited" /\ raised # <<>> /\ raised[2] = "parameters"
    /\ Len(variant_dictionary) >= 1
    /\ spawned = <<>>

\* C10 as stated: the exit code of the invocation is nonzero if the exit code
\* of any variant result is nonzero.
C10_ExitCodeReflectsResults ==
    (pc = "exited" /\ \E r \in EmittedResults : r.exitcode # 0) =>
        exit_status # Some(NormalExitStatus)

\* C10: the exit code of the invocation is nonzero exactly when an exception
\* leaves main; a run that reaches the summary exits 0 whatever the exit codes
\* of its variant results, which show only in the PASSED/FAILED summary lines.
C10_ExitCodeReflectsExceptions ==
    pc = "exited" =>
        /\ exit_status = Some(NormalExitStatus) <=> raised = <<>>
        /\ exit_status = Some(UncaughtExceptionStatus) <=> raised # <<>>
        /\ raised = <<>> =>
              /\ Len(summary) = SumSeq([b \in 1..Len(results) |-> Len(results[b][2])])
              /\ ("FAILED" \in {summary[i] : i \in 1..Len(summary)})
                 <=> (\E r \in EmittedResults : r.exitcode # 0)

\* the run reached the summary with a failed variant and exits 0
C10_Witness ==
    /\ pc = "exited" /\ raised = <<>>
    /\ exit_status = Some(NormalExitStatus)
    /\ \E r \in EmittedResults : r.exitcode # 0
    /\ \E i \in 1..Len(summary) : summary[i] = "FAILED"


\* the smaller of the global --timeout and the benchmark's own 'timeout', or the one set
EffectiveTimeout ==
    IF IsNone(CurBenchmark.timeout) THEN args.timeout
    ELSE IF IsNone(args.timeout) THEN CurBenchmark.timeout
    ELSE Some(Min2(args.timeout[1], CurBenchmark.timeout[1]))

\* C11: the timeout applied to a variant is the smaller of --timeout and the
\* benchmark's 'timeout' field, or the one that is set: a child alive when the
\* poll count reaches it is killed and the stderr marker reports that value.
C11_EffectiveTimeout ==
    [][/\ (vpc = "supervise" /\ proc = "running" /\ ~IsNone(EffectiveTimeout)
              /\ total_time' = total_time + 1 /\ total_time' = EffectiveTimeout[1])
          => kill_called'
       /\ (ReturnStep /\ kill_called)
          => Contains(stderr', Line("Timeout", EffectiveTimeout[1], FALSE))
      ]_vars

\* the function is back in its caller, by a return or by an exception
SlurmLeft == slurm_pc \in {"returned", "raised"}

\* the scancel command of this call failed
ScancelFailed == scancel # <<>> /\ scancel[Len(scancel)] # 0

\* C12: the kill hook is registered from the start of the submission process on,
\* for as long as no cleanup has run, and no hook is left registered once the
\* function has returned, whatever the return path and the attempt.
C12_HookReleased ==
    /\ (slurm_pc \in {"submit", "check", "poll"} /\ scancel = <<>>) => atexit_hooks >= 1
    /\ slurm_pc = "returned" => atexit_hooks = 0

\* C13: when the submission process has exited although its job had not ended,
\* scancel has been run for the job name by the time the function returns or raises.
C13_UnexpectedExitCancels ==
    (SlurmLeft /\ sbatch = "exited" /\ job # "completed") => scancel # <<>>

\* C14 as stated: a scancel that exits nonzero raises nothing, and the function
\* goes on to return the exit code and the logs.
C14_CancelFailureTolerated ==
    ScancelFailed => (slurm_raised = <<>> /\ slurm_pc # "raised")

\* C14: a scancel that exits nonzero makes kill_slurm_job raise SlurmBenchmarkError,
\* which leaves run_and_monitor_progress_on_slurm at once: nothing is returned for
\* the variant and the kill hook stays registered; nothing else raises.
C14_CancelFailureRaises ==
    /\ ScancelFailed <=> slurm_pc = "raised"
    /\ slurm_pc = "raised" =>
          /\ slurm_raised # <<>> /\ slurm_raised[1] = "SlurmBenchmarkError"
          /\ slurm_ret = <<>>
          /\ atexit_hooks >= 1

C14_Witness ==
    /\ slurm_pc = "raised" /\ ScancelFailed
    /\ slurm_timeout_error /\ job = "running"
    /\ slurm_attempts = MaxAttempts

\* --------------------------------------------- claims about the functions
Returned(fn) == call.fn = fn /\ call.returned

\* the entry of the one raw metric in the dict extract_metrics returns
ExtractedEntry == call.ret.metrics[1][2]

\* the matches of the call in the order the code collects them, and their numbers
RawMatches == SelectSeq(call.arg.stdout \o call.arg.stderr, LAMBDA l : l.tok = "m")

RawValues == [i \in 1..Len(RawMatches) |-> RawMatches[i].val]

AnyNaN == \E i \in 1..Len(RawMatches) : RawMatches[i].nan

SkipOf == IF IsNone(call.arg.metric.skip) THEN 0 ELSE call.arg.metric.skip[1]

KindOf == IF IsNone(call.arg.metric.reduction_type) THEN "mean" ELSE call.arg.metric.reduction_type[1]

\* C15: derive_metrics never raises, and a derived metric that refers to a raw
\* metric whose value is absent is put into the results with an absent value
\* and sets the failure flag.
C15_DeriveNeverRaises ==
    Returned("derive_metrics") =>
        /\ ~call.ret.raised
        /\ \A i \in 1..Len(call.arg.derivation_config) :
              LET name == call.arg.derivation_config[i][1]
                  rule == call.arg.derivation_config[i][2]
              IN (rule.expr.a = "loss" /\ IsNone(call.arg.results[1][2].value)) =>
                     /\ name \in Keys(call.ret.results)
                     /\ IsNone(Lookup(call.ret.results, name).value)
                     /\ call.ret.failed

\* C16 as stated: the value is absent, and the failure flag set, exactly when the
\* exit code is nonzero, a match is NaN, or there are fewer matches than 'skip'.
C16_AbsentWhenFewerThanSkip ==
    Returned("extract_metrics") =>
        /\ IsNone(ExtractedEntry.value)
              <=> (call.arg.exitcode # 0 \/ AnyNaN \/ Len(RawMatches) < SkipOf)
        /\ call.ret.failed <=> IsNone(ExtractedEntry.value)

\* C16: the value is absent, and the failure flag set, exactly when the exit code
\* is nonzero, a match is NaN, or the matches are no more than 'skip' (none at
\* all included); otherwise the entry holds a number under its reduction kind.
C16_AbsentWhenNotMoreThanSkip ==
    Returned("extract_metrics") =>
        /\ IsNone(ExtractedEntry.value)
              <=> (call.arg.exitcode # 0 \/ AnyNaN \/ Len(RawMatches) <= SkipOf)
        /\ call.ret.failed <=> IsNone(ExtractedEntry.value)
        /\ ExtractedEntry.key = KindOf
        /\ ~IsNone(ExtractedEntry.value) => ExtractedEntry.value[1].den > 0

C16_Witness ==
    /\ Returned("extract_metrics")
    /\ call.arg.exitcode = 0 /\ ~AnyNaN
    /\ Len(RawMatches) = SkipOf /\ SkipOf = MaxSkip
    /\ IsNone(ExtractedEntry.value) /\ call.ret.failed

\* the permutations of 1..n that put `s` in ascending (descending) order
SortingPermutations(s, descending) ==
    {p \in [1..Len(s) -> 1..Len(s)] :
        /\ \A i, j \in 1..Len(s) : i # j => p[i] # p[j]
        /\ \A i \in 1..(Len(s) - 1) :
              IF descending THEN s[p[i]] >= s[p[i + 1]] ELSE s[p[i]] <= s[p[i + 1]]}

\* the factor of line 278: the replica count for the metric named "throughput"
ReplicaFactor == IF call.arg.name = "throughput" THEN call.arg.num_replicas ELSE 1

\* C17: a value that is not absent is the reduction of the matches, times the
\* replica count for "throughput": 'mean' is the mean of what is left of the
\* sorted matches (descending for "latency") after the first 'skip', 'final' the
\* last raw match, 'min' the least of all, 'value' the first raw match.
C17_Reductions ==
    (Returned("extract_metrics") /\ ~IsNone(ExtractedEntry.value)) =>
        LET v == ExtractedEntry.value[1]
            n == Len(RawValues)
            is(x) == v.num = ReplicaFactor * x * v.den
        IN CASE KindOf = "mean" ->
                    \E p \in SortingPermutations(RawValues, call.arg.name = "latency") :
                        v.num * (n - SkipOf)
                            = ReplicaFactor * SumSeq([i \in 1..(n - SkipOf) |-> RawValues[p[i + SkipOf]]])
                              * v.den
             [] KindOf = "final" -> is(RawValues[n])
             [] KindOf = "min" -> \E i \in 1..n : is(RawValues[i]) /\ \A j \in 1..n : RawValues[i] <= RawValues[j]
             [] KindOf = "value" -> is(RawValues[1])

\* matches [3, 1, 2] with skip 1 reduce to the mean 5/2
C17_Witness ==
    /\ Returned("extract_metrics")
    /\ call.arg.name = "loss" /\ KindOf = "mean" /\ SkipOf = 1
    /\ RawValues = <<3, 1, 2>> /\ ~AnyNaN /\ call.arg.exitcode = 0
    /\ ~IsNone(ExtractedEntry.value)
    /\ ExtractedEntry.value[1].num * 2 = 5 * ExtractedEntry.value[1].den

\* the names and the value tuples of a list-style 'parameters'
ListNames == call.arg.parameters.list[1]

ListRows == Tail(call.arg.parameters.list)

\* the values listed for the i-th name, in the order of the tuples that have one
ColumnOf(i) ==
    LET having == SelectSeq(ListRows, LAMBDA r : Len(r) >= i)
    IN [j \in 1..Len(having) |-> having[j][i]]

\* C18: for a list-style spec the number of variants is the length of the
\* shortest of the lists of values of the names, and the j-th variant gives
\* every name its j-th value.
C18_ShortestListBounds ==
    (Returned("create_variants") /\ call.arg.parameters.style = "list") =>
        LET k == Len(ListNames)
            shortest == CHOOSE m \in {Len(ColumnOf(i)) : i \in 1..k} :
                            \A i \in 1..k : m <= Len(ColumnOf(i))
        IN /\ ~call.ret.raised
           /\ Len(call.ret.variants) = shortest
           /\ \A j \in 1..shortest :
                 call.ret.variants[j] = [x \in {ListNames[i] : i \in 1..k} |->
                                            ColumnOf(CHOOSE i \in 1..k : ListNames[i] = x)[j]]

DictItems == call.arg.parameters.items

RECURSIVE ProductOfLens(_)
ProductOfLens(items) == IF items = <<>> THEN 1 ELSE Len(items[1][2]) * ProductOfLens(Tail(items))

\* every choice of one listed value per parameter
Combinations(items) ==
    {f \in [Keys(items) -> ParamValues] :
        \A i \in 1..Len(items) : \E v \in 1..Len(items[i][2]) : f[items[i][1]] = items[i][2][v]}

\* C19: for a dict-style spec the variants are the cartesian product of the value
\* lists: every combination is there, nothing else is, and there are as many
\* variants as the product of the list sizes (no two alike when no list repeats
\* a value); without 'parameters' there is the one empty variant.
C19_CartesianProduct ==
    /\ (Returned("create_variants") /\ call.arg.parameters.style = "dict") =>
          /\ ~call.ret.raised
          /\ Len(call.ret.variants) = ProductOfLens(DictItems)
          /\ \A f \in Combinations(DictItems) :
                \E j \in 1..Len(call.ret.variants) : call.ret.variants[j] = f
          /\ \A j \in 1..Len(call.ret.variants) : call.ret.variants[j] \in Combinations(DictItems)
          /\ (\A i \in 1..Len(DictItems) : Distinct(DictItems[i][2]))
                => Distinct(call.ret.variants)
    /\ (Returned("create_variants") /\ call.arg.parameters.style = "none") =>
          (~call.ret.raised /\ call.ret.variants = <<EmptyDict>>)

C19_Witness ==
    /\ Returned("create_variants") /\ call.arg.parameters.style = "dict"
    /\ Len(DictItems) = 2
    /\ \A i \in 1..2 : Len(DictItems[i][2]) = MaxVals /\ Distinct(DictItems[i][2])
    /\ Len(call.ret.variants) = MaxVals * MaxVals
    /\ Distinct(call.ret.variants)

\* C20: in the list a dict-style spec expands to, the first parameter keeps its
\* value over each block of consecutive variants (one block per value) and the
\* last parameter changes its value from each variant to the next.
C20_EarlierVarySlowest ==
    (/\ Returned("create_variants") /\ call.arg.parameters.style = "dict"
     /\ Len(DictItems) >= 1
     /\ \A i \in 1..Len(DictItems) : Len(DictItems[i][2]) >= 2 /\ Distinct(DictItems[i][2])) =>
        LET n == Len(call.ret.variants)
            first == DictItems[1]
            last == DictItems[Len(DictItems)]
            block == n \div Len(first[2])
        IN /\ \A j \in 1..n : call.ret.variants[j][first[1]] = first[2][((j - 1) \div block) + 1]
           /\ \A j \in 1..(n - 1) : call.ret.variants[j][last[1]] # call.ret.variants[j + 1][last[1]]

\* C29: whenever run_and_monitor_progress_on_slurm has returned, the tuple is
\* (stdout, stderr, exitcode) in that order, the third being the exit code of
\* the submission process, which is what the caller unpacks as its exitcode.
C29_ReturnOrder ==
    slurm_pc = "returned" =>
        /\ Len(slurm_ret) = 3
        /\ slurm_ret[1].type = "str" /\ slurm_ret[1].value = StdoutLog
        /\ slurm_ret[2].type = "str"
        /\ slurm_ret[3].type = "int" /\ slurm_ret[3].value = sbatch_status[1]

\* the variants of the run: <<benchmark name, variant>> of the variant_dictionary
VariantsOfRun ==
    UNION {{<<call.ret[i][1], call.ret[i][2][j]>> : j \in 1..Len(call.ret[i][2])} :
              i \in 1..Len(call.ret)}

IsPrefix(p, q) == Len(p) < Len(q) /\ SubSeq(q, 1, Len(p)) = p

OwnIdentifiers ==
    {UNAME} \cup (IF IsNone(call.arg.hostname_I) THEN {}
                  ELSE {call.arg.hostname_I[1][i] : i \in 1..Len(call.arg.hostname_I[1])})

IsOwn(entry) == \E x \in OwnIdentifiers : IsSubstring(entry, x)

\* C22: the hosts returned are the listed hosts without the entries that match
\* one of this machine's identifiers, in the listed order; when none matched it
\* is the list without its first entry.
C22_LocalEntriesRemoved ==
    (Returned("get_local_poprun_hosts") /\ ~IsNone(call.arg.host)) =>
        LET listed == call.arg.host[1]
        IN IF \E i \in 1..Len(listed) : IsOwn(listed[i])
           THEN call.ret = SelectSeq(listed, LAMBDA e : ~IsOwn(e))
           ELSE call.ret = Tail(listed)

\* C23: for a variant run locally, the directories are copied to the hosts found
\* by host discovery exactly when some host was found, the run is not
\* compile-only and code sync is not disabled; every host found then gets them.
C23_SyncWhenRemoteHosts ==
    (Returned("prepare_hosts") /\ ~call.arg.submit_on_slurm) =>
        /\ call.ret.rsync # <<>>
              <=> (call.ret.poprun_hostnames # <<>> /\ ~call.arg.compile_only /\ ~call.arg.no_code_sync)
        /\ call.ret.rsync # <<>> =>
              \A i \in 1..Len(call.ret.poprun_hostnames) :
                  \E n \in 1..Len(call.ret.rsync) : call.ret.rsync[n][1] = call.ret.poprun_hostnames[i]

\* an entry of 'data' or 'derived' with the two defaults written into it
Defaulted(entry) ==
    [entry EXCEPT !.skip = IF entry.skip = <<>> THEN <<0>> ELSE entry.skip,
                  !.reduction_type = IF entry.reduction_type = <<>> THEN <<"mean">> ELSE entry.reduction_type]

C30_EnvironRestored ==
    Returned("expand_environment_variables") =>
        /\ call.os_environ = call.arg.os_environ
        /\ call.ret = [i \in 1..Len(call.arg.cmd) |->
                          IF VarOf(call.arg.cmd[i]) \in DOMAIN call.arg.new_env
                          THEN call.arg.new_env[VarOf(call.arg.cmd[i])]
                          ELSE call.arg.cmd[i]]

C30_Witness ==
    /\ Returned("expand_environment_variables")
    /\ call.arg.new_env # call.arg.os_environ
    /\ call.os_environ = call.arg.os_environ
    /\ call.ret # call.arg.cmd
    /\ \E i \in 1..Len(call.arg.cmd) :
          /\ VarOf(call.arg.cmd[i]) \in DOMAIN call.arg.os_environ
          /\ call.ret[i] # call.arg.os_environ[VarOf(call.arg.cmd[i])]

\* C28: whenever run_and_monitor_progress returns with the timeout flag set, so
\* that the timeout marker is appended to the returned stderr, the exit code it
\* returns is nonzero.
C28_TimeoutMarkerImpliesFailure ==
    [][(vpc = "supervise" /\ vpc' = "loop" /\ timeout_error) => exitcode' # 0]_vars

\* ------------------------------------------------------------- load_lib
\* load_lib.py 43-118 (cppimport_safe.py 41-102 has the same loop), called by
\* several processes for the same source file
\* the number of processes that call load_lib
MaxProcs == 3

LibProcs == 1..MaxProcs

\* what is at binary_path before the first call
InitialBinaries == {"absent", "stale", "valid"}

\* os.path.exists(binary_path) and is_checksum_valid(module_data_new_path): the
\* checksum trailer is at the end of the file, a file being written has none
BinaryValid(b) == b = "valid"

\* a lock holder that builds whatever it finds
NeedsBuild_Always(b) == TRUE

\* line 96: the test repeated after the lock has been obtained
NeedsBuild(b) == ~BinaryValid(b)

\* the inode a newly created lock file gets: one that no process has open
FreshInode == CHOOSE i \in 1..(MaxProcs + 1) :
                 i # lock_file /\ \A q \in DOMAIN lib_fd : lib_fd[q] # i

LoadLibInit ==
    /\ spec = <<>>
    /\ args \in FunctionArgs
    /\ environ \in {e \in Environs : e.DATASETS_DIR /\ e.HOSTS}
    /\ EngineStart
    /\ SlurmIdle
    /\ IoIdle
    /\ call = NoCall
    /\ lib_pc = [p \in LibProcs |-> "while"]
    /\ lib_fd = [p \in LibProcs |-> 0]
    /\ lib_held = [p \in LibProcs |-> 0]
    /\ lock_file = 0
    /\ binary \in InitialBinaries
    /\ builds = 0
    /\ lib_loaded = {}

LibOthers == <<engineVars, slurmVars, ioVars, call>>

\* line 93: the loop condition; once the process has waited for the lock,
\* time() - t < timeout may have become false
LibWhile(p) ==
    /\ lib_pc[p] \in {"while", "waited"}
    /\ \/ BinaryValid(binary) /\ lib_pc' = [lib_pc EXCEPT ![p] = "check"]
       \/ ~BinaryValid(binary) /\ lib_pc' = [lib_pc EXCEPT ![p] = "open"]
       \/ ~BinaryValid(binary) /\ lib_pc[p] = "waited" /\ lib_pc' = [lib_pc EXCEPT ![p] = "check"]
    /\ UNCHANGED <<lib_fd, lib_held, lock_file, binary, builds, lib_loaded, LibOthers>>

\* line 95, FileLock.acquire: os.open(lock_path, O_RDWR | O_CREAT | O_TRUNC)
LibOpen(p) ==
    /\ lib_pc[p] = "open"
    /\ LET inode == IF lock_file = 0 THEN FreshInode ELSE lock_file
       IN /\ lock_file' = inode
          /\ lib_fd' = [lib_fd EXCEPT ![p] = inode]
    /\ lib_pc' = [lib_pc EXCEPT ![p] = "flock"]
    /\ UNCHANGED <<lib_held, binary, builds, lib_loaded, LibOthers>>

\* line 95, FileLock.acquire: fcntl.flock(fd, LOCK_EX | LOCK_NB); a refused lock is
\* tried again until one second has passed, then Timeout is raised and lines
\* 103-105 sleep and go back to the loop condition
LibFlock(p) ==
    /\ lib_pc[p] = "flock"
    /\ IF \E q \in LibProcs : lib_held[q] = lib_fd[p]
       THEN /\ lib_fd' = [lib_fd EXCEPT ![p] = 0]
            /\ \E next \in {"open", "waited"} : lib_pc' = [lib_pc EXCEPT ![p] = next]
            /\ UNCHANGED lib_held
       ELSE /\ lib_held' = [lib_held EXCEPT ![p] = lib_fd[p]]
            /\ lib_pc' = [lib_pc EXCEPT ![p] = "locked"]
            /\ UNCHANGED lib_fd
    /\ UNCHANGED <<lock_file, binary, builds, lib_loaded, LibOthers>>

\* lines 96-98: inside the lock, break if the binary is valid (leaving the with
\* block releases the lock), otherwise start template_and_build
LibLocked(p) ==
    /\ lib_pc[p] = "locked"
    /\ IF NeedsBuild(binary)
       THEN /\ lib_pc' = [lib_pc EXCEPT ![p] = "build"]
            /\ binary' = "partial"
            /\ UNCHANGED <<lib_fd, lib_held>>
       ELSE /\ lib_pc' = [lib_pc EXCEPT ![p] = "check"]
            /\ lib_fd' = [lib_fd EXCEPT ![p] = 0]
            /\ lib_held' = [lib_held EXCEPT ![p] = 0]
            /\ UNCHANGED binary
    /\ UNCHANGED <<lock_file, builds, lib_loaded, LibOthers>>

\* lines 98-102: the build and the copy to binary_path are complete, the with
\* block is left and the lock released
LibBuilt(p) ==
    /\ lib_pc[p] = "build"
    /\ binary' = "valid"
    /\ builds' = builds + 1
    /\ lib_fd' = [lib_fd EXCEPT ![p] = 0]
    /\ lib_held' = [lib_held EXCEPT ![p] = 0]
    /\ lib_pc' = [lib_pc EXCEPT ![p] = "while"]
    /\ UNCHANGED <<lock_file, lib_loaded, LibOthers>>

\* lines 107-109: raise unless the binary is valid
LibCheck(p) ==
    /\ lib_pc[p] = "check"
    /\ lib_pc' = [lib_pc EXCEPT ![p] = IF BinaryValid(binary) THEN "remove" ELSE "raised"]
    /\ UNCHANGED <<lib_fd, lib_held, lock_file, binary, builds, lib_loaded, LibOthers>>

\* lines 111-113: remove the lock file if it exists
LibRemoveLock(p) ==
    /\ lib_pc[p] = "remove"
    /\ lock_file' = 0
    /\ lib_pc' = [lib_pc EXCEPT ![p] = "load"]
    /\ UNCHANGED <<lib_fd, lib_held, binary, builds, lib_loaded, LibOthers>>

\* lines 115-118: ctypes.cdll.LoadLibrary(binary_path), return
LibLoad(p) ==
    /\ lib_pc[p] = "load"
    /\ lib_loaded' = IF BinaryValid(binary) THEN lib_loaded \cup {p} ELSE lib_loaded
    /\ lib_pc' = [lib_pc EXCEPT ![p] = "returned"]
    /\ UNCHANGED <<lib_fd, lib_held, lock_file, binary, builds, LibOthers>>

LoadLibNext ==
    \E p \in LibProcs :
        \/ LibWhile(p)
        \/ LibOpen(p)
        \/ LibFlock(p)
        \/ LibLocked(p)
        \/ LibBuilt(p)
        \/ LibCheck(p)
        \/ LibRemoveLock(p)
        \/ LibLoad(p)

LoadLibSpec == LoadLibInit /\ [][LoadLibNext]_vars

\* C25 as stated: processes that call load_lib concurrently never build at the
\* same time, build only while holding the lock on the lock file, never build
\* once a valid binary exists, and every one of them ends by loading the binary,
\* the lock file being gone when all have ended.
LibBuilding(p) == lib_pc[p] = "build"

LibEnded(p) == lib_pc[p] \in {"returned", "raised"}

LibSafe ==
    /\ \A p, q \in LibProcs : LibBuilding(p) /\ LibBuilding(q) => p = q
    /\ \A p \in LibProcs : LibBuilding(p) =>
          /\ lib_held[p] # 0 /\ lib_held[p] = lock_file
          /\ \A q \in LibProcs \ {p} : lib_held[q] = 0
    /\ builds <= 1
    /\ (\E p \in LibProcs : LibBuilding(p)) => builds = 0
    /\ (\A p \in LibProcs : LibEnded(p)) => lock_file = 0

C25_AllLoad ==
    /\ LibSafe
    /\ \A p \in LibProcs : LibEnded(p) => p \in lib_loaded

\* C25 amended: the same, for the processes that return; a process whose wait
\* outlasts its timeout ends by raising instead, without building or loading.
C25_OneBuildAllReturnedLoad ==
    /\ LibSafe
    /\ \A p \in LibProcs : lib_pc[p] = "returned" => p \in lib_loaded /\ BinaryValid(binary)
    /\ \A p \in LibProcs : lib_pc[p] = "raised" => p \notin lib_loaded

C25_Witness ==
    /\ \A p \in LibProcs : lib_pc[p] = "returned"
    /\ lib_loaded = LibProcs
    /\ builds = 1
    /\ lock_file = 0

\* -------------------------- run_and_monitor_progress, one read at a time
\* lines 108-197 with proc_thread taken apart into its reads: the child writes
\* chunks to its two pipes, proc_thread reads and decodes them one by one
\* chunks the child writes during one run
MaxChunks == 2

\* bytes that are not valid UTF-8, such as a multi-byte character cut by read1(80)
UndecodableChunk == Text("\\xe2\\x96")

IoChunks == {Text("loss"), UndecodableChunk}

\* data.decode() succeeds
Decodes(data) == data # UndecodableChunk

AllDecode(chunks) == \A i \in 1..Len(chunks) : Decodes(chunks[i])

\* what the listener received from one stream
RECURSIVE Tagged(_, _)
Tagged(stream, chunks) ==
    IF chunks = <<>> THEN <<>> ELSE <<[stream |-> stream, data |-> Head(chunks)]>> \o Tagged(stream, Tail(chunks))

\* a read that keeps the bytes it cannot decode
ReadChunk_KeepAll(acc, data) == Append(acc, data)

\* lines 122-135: the chunk is appended when it decodes, UnicodeDecodeError is passed over
ReadChunk(acc, data) == IF Decodes(data) THEN Append(acc, data) ELSE acc

MonitorInit ==
    /\ spec = <<>>
    /\ args \in {[a EXCEPT !.timeout = tm, !.gc_monitor = g] :
                    a \in FunctionArgs, tm \in Timeouts, g \in BOOLEAN}
    /\ environ \in {e \in Environs : e.DATASETS_DIR /\ e.HOSTS}
    /\ EngineStart
    /\ SlurmIdle
    /\ IoIdle
    /\ LibIdle
    /\ call = NoCall

IoOthers == <<inputVars, mainVars, need_to_run, attempts, monitor_log, running_children, spawned,
              slurmVars, libVars, call>>

\* lines 108-165: Popen with two pipes, start proc_thread and monitor_thread; the
\* command may start processes of its own, which inherit the pipes
IoSpawn ==
    /\ vpc = "idle" /\ proc = "none"
    /\ proc' = "running" /\ status' = <<>> /\ child_out' = <<>> /\ child_err' = <<>>
    /\ pipes' = <<<<>>, <<>>>> /\ listener' = <<>>
    /\ descendants' \in BOOLEAN
    /\ returncode' = <<>> /\ t' = "reading" /\ outs' = <<<<>>, <<>>>>
    /\ t_monitor' = IF args.gc_monitor THEN "running" ELSE "none"
    /\ ipu_monitoring' = 0
    /\ total_time' = 0 /\ timeout_error' = FALSE /\ kill_called' = FALSE
    /\ vpc' = "supervise"
    /\ UNCHANGED <<stdout, stderr, exitcode, IoOthers>>

\* the child writes a chunk to its stdout (1) or stderr (2)
IoChildWrite ==
    /\ proc = "running"
    /\ Len(child_out) + Len(child_err) < MaxChunks
    /\ \E stream \in {1, 2}, data \in IoChunks :
          /\ pipes' = [pipes EXCEPT ![stream] = Append(@, data)]
          /\ IF stream = 1
             THEN child_out' = Append(child_out, data) /\ UNCHANGED child_err
             ELSE child_err' = Append(child_err, data) /\ UNCHANGED child_out
    /\ UNCHANGED <<proc, status, listener, descendants, threadVars, monitorVars, pollVars,
                   vpc, stdout, stderr, exitcode, IoOthers>>

\* the child exits by itself, after the processes it started
IoChildExit ==
    /\ proc = "running"
    /\ \E c \in ChildExitCodes : status' = Some(c)
    /\ proc' = "exited"
    /\ descendants' = FALSE
    /\ UNCHANGED <<child_out, child_err, pipes, listener, threadVars, monitorVars, pollVars,
                   vpc, stdout, stderr, exitcode, IoOthers>>

\* the processes left behind by a killed child exit and close the pipes
IoDescendantsExit ==
    /\ proc = "exited" /\ descendants
    /\ descendants' = FALSE
    /\ UNCHANGED <<childVars, pipes, listener, threadVars, monitorVars, pollVars,
                   vpc, stdout, stderr, exitcode, IoOthers>>

\* lines 119-135: select() reports a pipe with data, read1(80) returns a chunk
IoRead ==
    /\ t = "reading"
    /\ \E stream \in {1, 2} :
          /\ pipes[stream] # <<>>
          /\ LET data == Head(pipes[stream])
             IN /\ outs' = [outs EXCEPT ![stream] = ReadChunk(@, data)]
                /\ listener' = listener \o Tagged(stream, ReadChunk(<<>>, data))
          /\ pipes' = [pipes EXCEPT ![stream] = Tail(@)]
    /\ UNCHANGED <<childVars, descendants, returncode, t, monitorVars, pollVars,
                   vpc, stdout, stderr, exitcode, IoOthers>>

\* lines 119-126: read1 returns no data on a pipe whose write ends are all closed,
\* eof is set and the loop left
IoEof ==
    /\ t = "reading"
    /\ proc = "exited" /\ ~descendants
    /\ \E stream \in {1, 2} : pipes[stream] = <<>>
    /\ t' = "communicate"
    /\ UNCHANGED <<childVars, ioVars, returncode, outs, monitorVars, pollVars,
                   vpc, stdout, stderr, exitcode, IoOthers>>

\* lines 137-142: communicate() reads what is left up to end-of-stream on both
\* pipes and reaps the child; the two decode() calls are outside any try, so
\* UnicodeDecodeError ends the thread there
IoCommunicate ==
    /\ t = "communicate"
    /\ proc = "exited" /\ ~descendants
    /\ returncode' = status
    /\ LET a == pipes[1]
           b == pipes[2]
       IN IF ~AllDecode(a)
          THEN UNCHANGED <<outs, listener>>
          ELSE IF ~AllDecode(b)
          THEN /\ outs' = [outs EXCEPT ![1] = @ \o a]
               /\ listener' = listener \o Tagged(1, a)
          ELSE /\ outs' = <<outs[1] \o a, outs[2] \o b>>
               /\ listener' = listener \o Tagged(1, a) \o Tagged(2, b)
    /\ pipes' = <<<<>>, <<>>>>
    /\ t' = "done"
    /\ UNCHANGED <<childVars, descendants, monitorVars, pollVars,
                   vpc, stdout, stderr, exitcode, IoOthers>>

\* lines 166-185 with proc_thread alive: count a second (the count saturates at
\* MaxTime, the loop itself goes on); on timeout proc.kill() sends SIGKILL to the
\* child process alone
IoPollTick ==
    /\ vpc = "supervise" /\ t # "done"
    /\ total_time' = Min2(total_time + 1, MaxTime)
    /\ IF TimedOut(args.timeout, total_time + 1)
       THEN /\ timeout_error' = TRUE
            /\ kill_called' = TRUE
            /\ IF proc = "running"
               THEN proc' = "exited" /\ status' = Some(-SIGKILL)
               ELSE UNCHANGED <<proc, status>>
       ELSE UNCHANGED <<timeout_error, kill_called, proc, status>>
    /\ UNCHANGED <<child_out, child_err, ioVars, threadVars, monitorVars,
                   vpc, stdout, stderr, exitcode, IoOthers>>

\* lines 169-172 and 187-197: proc_thread has ended, join the monitor, return
IoPollDone ==
    /\ vpc = "supervise" /\ t = "done"
    /\ MonitorJoined(args.gc_monitor, t_monitor)
    /\ stdout' = outs[1]
    /\ stderr' = ReturnedErr(outs[2], timeout_error, args.timeout)
    /\ exitcode' = returncode[1]
    /\ vpc' = "returned"
    /\ UNCHANGED <<childVars, ioVars, threadVars, monitorVars, pollVars, IoOthers>>

MonitorNext ==
    \/ IoSpawn
    \/ IoChildWrite
    \/ IoChildExit
    \/ IoDescendantsExit
    \/ IoRead
    \/ IoEof
    \/ IoCommunicate
    \/ MonitorStep
    \/ IoPollTick
    \/ IoPollDone

MonitorSpec == MonitorInit /\ [][MonitorNext]_vars

\* the threads and the supervisor loop keep running; nothing makes the child or
\* the processes it started go away but the kill
FairMonitorSpec ==
    /\ MonitorSpec
    /\ WF_vars(IoRead) /\ WF_vars(IoEof) /\ WF_vars(IoCommunicate)
    /\ WF_vars(MonitorStep) /\ WF_vars(IoPollTick) /\ WF_vars(IoPollDone)

\* C26: when run_and_monitor_progress has returned, both pipes had reached
\* end-of-stream and the child was reaped, the exit code returned is the exit
\* status of the child, and each stream's accumulator, the returned stdout and
\* stderr and the listener hold every chunk the child wrote to that stream, in
\* the order written.
RECURSIVE OfStream(_, _)
OfStream(stream, written) ==
    IF written = <<>> THEN <<>>
    ELSE (IF Head(written).stream = stream THEN <<Head(written).data>> ELSE <<>>)
         \o OfStream(stream, Tail(written))

IoReturned == vpc = "returned"

C26_ExitCodeReal ==
    IoReturned =>
        /\ proc = "exited" /\ ~descendants /\ pipes = <<<<>>, <<>>>>
        /\ returncode = status /\ status # <<>> /\ exitcode = status[1]

C26_AllOutputReturned ==
    /\ C26_ExitCodeReal
    /\ IoReturned =>
          /\ outs = <<child_out, child_err>>
          /\ stdout = child_out
          /\ stderr = IF timeout_error
                      THEN Append(child_err, Line("Timeout", args.timeout[1], FALSE))
                      ELSE child_err
          /\ OfStream(1, listener) = child_out
          /\ OfStream(2, listener) = child_err

\* C27: once the watchdog has called proc.kill(), run_and_monitor_progress
\* eventually returns, proc_thread and monitor_thread having ended.
C27_ReturnsAfterKill ==
    kill_called ~> (IoReturned /\ t = "done" /\ t_monitor # "running")

====
